---- MODULE Spec2Model ----
(***************************************************************************)
(* A model of django.db.models.sql.query.Query: the alias bookkeeping      *)
(* (table_alias, ref_alias, unref_alias), the join graph (join,            *)
(* promote_joins, trim_joins, change_aliases, bump_prefix), the filter     *)
(* compiler (setup_joins, add_filter) and clone()/combine().               *)
(*                                                                         *)
(* Two Query objects are modelled (QueryIds), so that clone() and          *)
(* combine() have an original and a copy, a left and a right side.         *)
(* Aliases are strings, built as the code builds them.  Python's None is   *)
(* the string None.                                                        *)
(***************************************************************************)
EXTENDS Integers, Sequences, FiniteSets, TLC

VARIABLES
    q,       \* q[i]: the attributes of Query object i
    shared,  \* tables whose table_map alias list is ONE list object held by both queries
    call     \* the call that produced this state: its name, receiver, arguments, results

vars == <<q, shared, call>>

----------------------------------------------------------------------------
(* Bounds of the model *)

MaxAliases == 3         \* no call leaves a query with more aliases than this
MaxRefcount == 1        \* Spec: no call leaves a join's refcount above this
MaxBaseRefcount == 2    \* Spec: no call leaves the refcount of the base alias above this
MaxWhere == 1           \* Spec, SpecClone: no filter or combine on a WHERE tree of this many entries
MaxBump == 1            \* bump_prefix is not called on a query relabelled this many times
MaxJoinRefcount == 2    \* SpecJoin: the bound on a join's refcount (the base alias: 1)
MaxPromote == 2         \* SpecJoin: the longest list of aliases given to promote_joins
MaxFilters == 2         \* SpecFilter: no filter or combine on a WHERE tree of this many entries
MaxFilterRefcount == 3  \* SpecFilter: the bound on an alias's refcount
MaxCloneAliases == 2    \* SpecClone: the bound on the aliases of a query
MaxCloneRefcount == 1   \* SpecClone: the bound on an alias's refcount
MaxQRefcount == 4       \* SpecQ: the bound on an alias's refcount
MaxManyAliases == 7     \* SpecMany: the bound on the aliases of a query
MaxManyRefcount == 2    \* SpecMany: the bound on a join's refcount
MaxHavingRefcount == 2  \* SpecHaving: the bound on an alias's refcount
MaxRows == 3            \* SpecCount: the rows the unsliced query matches
MaxMark == 3            \* SpecCount: the bound on low_mark and high_mark
MaxSelect == 2          \* SpecCount: the bound on the select list
MaxTextLen == 2         \* SpecComposite: the length of the text of a field's value
MaxInValues == 2        \* SpecComposite: the raw values of an 'in' lookup
MaxOrdering == 2        \* SpecOrdering: the items of one add_ordering call
MaxOrderBy == 3         \* SpecOrdering: the bound on the length of order_by
MaxRhsFilters == 3      \* SpecRhs: no filter or combine on a WHERE tree of this many entries

QueryIds == {1, 2}

----------------------------------------------------------------------------
(* Constants of the program *)

INNER == "INNER JOIN"
LOUTER == "LEFT OUTER JOIN"
None == "None"
AND == "AND"
OR == "OR"
alias_prefix == "T"

\* chr(ord(alias_prefix) + 1) for the letters bump_prefix can reach
Letters == <<"T", "U", "V", "W", "X", "Y", "Z">>
ord(c) == CHOOSE n \in 1..Len(Letters) : Letters[n] = c

\* chr() giving back the letter it was asked to follow: C14 does not hold of it
chr_stuck(n) == Letters[n - 1]

chr(n) == Letters[n]

\* The reuse argument of join(): REUSE_ALL, None, or a set of aliases
REUSE_ALL == [kind |-> "all", aliases |-> {}]
REUSE_NONE == [kind |-> "none", aliases |-> {}]
ReuseSet(S) == [kind |-> "set", aliases |-> S]

----------------------------------------------------------------------------
(* The model metadata the query is built over (opts.get_field_by_name):    *)
(* the base model is item; item.parent is a nullable foreign key to item,  *)
(* item.owner a non-null foreign key to person, item.editor a nullable     *)
(* foreign key to person, item.tags a many-to-many field to tag.  Every     *)
(* table has the columns id (primary key) and name.                        *)

BaseTable == "item"

Relations ==
    { [model |-> "item", name |-> "parent", table |-> "item",
       from_col |-> "parent_id", to_col |-> "id", null |-> TRUE],
      [model |-> "item", name |-> "owner", table |-> "person",
       from_col |-> "owner_id", to_col |-> "id", null |-> FALSE],
      [model |-> "item", name |-> "editor", table |-> "person",
       from_col |-> "editor_id", to_col |-> "id", null |-> TRUE] }

RelationNames == {r.name : r \in Relations}
FieldNames == {"id", "name"}

HasRelation(model, name) == \E r \in Relations : r.model = model /\ r.name = name
Relation(model, name) == CHOOSE r \in Relations : r.model = model /\ r.name = name

\* The relations to many rows: item.tags is a many-to-many field to tag
\* through the table item_tags (m2m, direct); item.children is the reverse
\* of item.parent and person.owned the reverse of item.owner (not direct).
\* 'null' is what is_nullable(field) gives for the field setup_joins
\* returns when the path ends at the relation: the many-to-many field, or
\* the foreign key behind the reverse relation.
ManyRelations ==
    { [model |-> "item", name |-> "tags", m2m |-> TRUE, direct |-> TRUE,
       table1 |-> "item_tags", from_col1 |-> "id", to_col1 |-> "item_id",
       table2 |-> "tag", from_col2 |-> "tag_id", to_col2 |-> "id",
       opts |-> "tag", null |-> FALSE],
      [model |-> "item", name |-> "children", m2m |-> FALSE, direct |-> FALSE,
       table1 |-> "item", from_col1 |-> "id", to_col1 |-> "parent_id",
       table2 |-> None, from_col2 |-> None, to_col2 |-> None,
       opts |-> "item", null |-> TRUE],
      [model |-> "person", name |-> "owned", m2m |-> FALSE, direct |-> FALSE,
       table1 |-> "item", from_col1 |-> "id", to_col1 |-> "owner_id",
       table2 |-> None, from_col2 |-> None, to_col2 |-> None,
       opts |-> "item", null |-> FALSE] }

HasManyRelation(model, name) == \E r \in ManyRelations : r.model = model /\ r.name = name
ManyRelation(model, name) == CHOOSE r \in ManyRelations : r.model = model /\ r.name = name

----------------------------------------------------------------------------
(* Helpers for Python lists and dicts *)

Range(s) == {s[n] : n \in 1..Len(s)}
Get(d, k, default) == IF k \in DOMAIN d THEN d[k] ELSE default
Put(d, k, v) == [x \in DOMAIN d \cup {k} |-> IF x = k THEN v ELSE d[x]]
Del(d, k) == [x \in DOMAIN d \ {k} |-> d[x]]
EmptyDict == [x \in {} |-> None]
Filter(s, S) == SelectSeq(s, LAMBDA a : a \in S)

\* list[pos] = new for the first pos with list[pos] = old (the loops of change_aliases)
ReplaceFirst(s, old, new) ==
    IF old \notin Range(s) THEN s
    ELSE LET pos == CHOOSE n \in 1..Len(s) : s[n] = old /\ \A m \in 1..(n - 1) : s[m] # old
         IN [s EXCEPT ![pos] = new]

----------------------------------------------------------------------------
(* Query.__init__ *)

\* A limit that may be None: no number, or one
Nothing == << >>
Some(n) == <<n>>

JoinInfo(table, alias, join_type, lhs, lhs_col, col, nullable) ==
    [table_name |-> table, rhs_alias |-> alias, join_type |-> join_type,
     lhs_alias |-> lhs, lhs_join_col |-> lhs_col, rhs_join_col |-> col,
     nullable |-> nullable]

NewQuery ==
    [alias_refcount |-> EmptyDict,
     alias_map |-> EmptyDict,
     table_map |-> EmptyDict,
     join_map |-> EmptyDict,
     tables |-> << >>,
     select |-> << >>,
     where |-> << >>,
     alias_prefix |-> alias_prefix,
     model |-> BaseTable,
     low_mark |-> 0,
     high_mark |-> Nothing,
     distinct |-> FALSE,
     distinct_fields |-> << >>,
     extra |-> EmptyDict,
     included_inherited_models |-> EmptyDict,
     used_aliases |-> {},
     group_by |-> Nothing,
     having |-> << >>,
     aggregates |-> EmptyDict,
     aggregate_select_mask |-> Nothing,
     order_by |-> << >>,
     default_ordering |-> TRUE,
     deferred_loading |-> [names |-> {}, defer |-> TRUE]]

\* Query(model): NewQuery is Query(BaseTable)
Query(model) == [NewQuery EXCEPT !.model = model]

----------------------------------------------------------------------------
(* Alias Table *)

\* An alias that is a number and no prefix: C16 does not hold of it
AliasNameNoPrefix(prefix, n) == ToString(n)

\* '%s%d' % (self.alias_prefix, n)
AliasName(prefix, n) == prefix \o ToString(n)

table_alias(Q, table_name, create) ==
    LET current == Get(Q.table_map, table_name, << >>) IN
    IF ~create /\ current # << >>
    THEN [q |-> [Q EXCEPT !.alias_refcount[current[1]] = @ + 1],
          alias |-> current[1], new |-> FALSE]
    ELSE LET alias == IF current # << >>
                      THEN AliasName(Q.alias_prefix, Cardinality(DOMAIN Q.alias_map) + 1)
                      ELSE table_name
         IN [q |-> [Q EXCEPT
                      !.table_map = Put(@, table_name, Append(current, alias)),
                      !.alias_refcount = Put(@, alias, 1),
                      !.tables = Append(@, alias)],
             alias |-> alias, new |-> TRUE]

ref_alias(Q, alias) == [Q EXCEPT !.alias_refcount[alias] = @ + 1]

\* unref_alias() that takes one reference too many: C38 does not hold of it
unref_alias_more(Q, alias, amount) == [Q EXCEPT !.alias_refcount[alias] = @ - amount - 1]

unref_alias(Q, alias, amount) == [Q EXCEPT !.alias_refcount[alias] = @ - amount]

----------------------------------------------------------------------------
(* Join Graph *)

\* promote_joins without the re-examination of the joins that start from a
\* promoted alias: C9 does not hold of it
NoChildren(Q, alias, aliases) == << >>

\* The aliases that promote_joins appends to its work list when 'alias' changed type
Children(Q, alias, aliases) ==
    Filter(Q.tables, {join \in DOMAIN Q.alias_map :
                         /\ Q.alias_map[join].lhs_alias = alias
                         /\ join \notin Range(aliases)})

\* promote_joins without its test for the base table: C10 does not hold of it
IsBaseTableNever(Q, alias) == FALSE

\* "This is the base table (first FROM entry)"
IsBaseTable(Q, alias) == Q.alias_map[alias].rhs_join_col = None

\* promote_joins that sets the join type of every alias from its test, to
\* INNER when the test fails: C39 does not hold of it
RECURSIVE promote_joins_assign(_, _, _)
promote_joins_assign(Q, aliases, unconditional) ==
    IF aliases = << >> THEN Q
    ELSE
      LET alias == Head(aliases)
          info == Q.alias_map[alias]
          parent_louter == /\ info.lhs_alias # None
                           /\ Q.alias_map[info.lhs_alias].join_type = LOUTER
      IN IF IsBaseTable(Q, alias)
         THEN promote_joins_assign(Q, Tail(aliases), unconditional)
         ELSE promote_joins_assign(
                 [Q EXCEPT !.alias_map[alias].join_type =
                     IF unconditional \/ info.nullable \/ parent_louter
                     THEN LOUTER ELSE INNER],
                 Tail(aliases), unconditional)

RECURSIVE promote_joins(_, _, _)
promote_joins(Q, aliases, unconditional) ==
    IF aliases = << >> THEN Q
    ELSE
      LET alias == Head(aliases)
          rest == Tail(aliases)
          info == Q.alias_map[alias]
          parent_alias == info.lhs_alias
          parent_louter == /\ parent_alias # None
                           /\ Q.alias_map[parent_alias].join_type = LOUTER
          already_louter == info.join_type = LOUTER
      IN IF IsBaseTable(Q, alias)
         THEN promote_joins(Q, rest, unconditional)
         ELSE IF (unconditional \/ info.nullable \/ parent_louter) /\ ~already_louter
         THEN LET Q1 == [Q EXCEPT !.alias_map[alias].join_type = LOUTER]
              IN promote_joins(Q1, rest \o Children(Q1, alias, rest), unconditional)
         ELSE promote_joins(Q, rest, unconditional)

\* join() reusing whatever join_map holds for the connection: C6 does not
\* hold of it
ReusableAll(Q, connection, reuse) == Get(Q.join_map, connection, << >>)

\* The aliases of join_map[connection] that the reuse argument admits
Reusable(Q, connection, reuse) ==
    LET existing == Get(Q.join_map, connection, << >>) IN
    CASE reuse.kind = "all" -> existing
      [] reuse.kind = "none" -> << >>
      [] OTHER -> Filter(existing, reuse.aliases)

\* join() creating an INNER join on a LOUTER left side: C1 does not hold of it
NewJoinTypeLhsIgnored(Q, lhs, promote, outer_if_first) ==
    IF lhs = None THEN None
    ELSE IF promote \/ outer_if_first THEN LOUTER
    ELSE INNER

\* join() not looking at outer_if_first: C8 does not hold of it
NewJoinTypeFirstIgnored(Q, lhs, promote, outer_if_first) ==
    IF lhs = None THEN None
    ELSE IF promote \/ Q.alias_map[lhs].join_type = LOUTER THEN LOUTER
    ELSE INNER

NewJoinType(Q, lhs, promote, outer_if_first) ==
    IF lhs = None THEN None
    ELSE IF promote \/ outer_if_first \/ Q.alias_map[lhs].join_type = LOUTER THEN LOUTER
    ELSE INNER

join(Q, connection, reuse, promote, outer_if_first, nullable) ==
    LET lhs == connection[1]
        table == connection[2]
        lhs_col == connection[3]
        col == connection[4]
        reusable == Reusable(Q, connection, reuse)
    IN IF reusable # << >>
       THEN LET alias == reusable[1]
                Q1 == ref_alias(Q, alias)
            IN [q |-> IF promote \/ (lhs # None /\ Q1.alias_map[lhs].join_type = LOUTER)
                      THEN promote_joins(Q1, <<alias>>, FALSE)
                      ELSE Q1,
                alias |-> alias, new |-> FALSE]
       ELSE LET ta == table_alias(Q, table, TRUE)
                alias == ta.alias
                join_type == NewJoinType(Q, lhs, promote, outer_if_first)
            IN [q |-> [ta.q EXCEPT
                         !.alias_map = Put(@, alias, JoinInfo(table, alias, join_type,
                                                              lhs, lhs_col, col, nullable)),
                         !.join_map = Put(@, connection,
                                          Append(Get(@, connection, << >>), alias))],
                alias |-> alias, new |-> TRUE]

get_initial_alias(Q) ==
    IF Q.tables # << >>
    THEN [q |-> ref_alias(Q, Q.tables[1]), alias |-> Q.tables[1], new |-> FALSE]
    ELSE join(Q, <<None, Q.model, None, None>>, REUSE_ALL, FALSE, FALSE, FALSE)

\* setup_inherited_models for a model that inherits no other model: the
\* loop over the ancestors adds nothing to {None: root_alias}
setup_inherited_models(Q) ==
    [Q EXCEPT !.included_inherited_models = [key \in {None} |-> Q.tables[1]]]

\* remove_inherited_models: the alias of every ancestor (every key but None)
\* loses a reference
RECURSIVE unref_inherited(_, _)
unref_inherited(Q, keys) ==
    IF keys = {} THEN Q
    ELSE LET key == CHOOSE k \in keys : TRUE
         IN unref_inherited(unref_alias(Q, Q.included_inherited_models[key], 1),
                            keys \ {key})

remove_inherited_models(Q) ==
    [unref_inherited(Q, DOMAIN Q.included_inherited_models \ {None})
        EXCEPT !.included_inherited_models = EmptyDict]

\* WhereNode.relabel_aliases / relabel_column: every leaf and select entry
\* names its alias through change_map
Relabel(change_map, alias) == Get(change_map, alias, alias)

RECURSIVE relabel_aliases(_, _)
relabel_aliases(where, change_map) ==
    [n \in 1..Len(where) |->
        CASE where[n].kind = "leaf" -> [where[n] EXCEPT !.alias = Relabel(change_map, @)]
          [] where[n].kind = "subtree" ->
                [where[n] EXCEPT !.children = relabel_aliases(@, change_map)]
          [] OTHER -> where[n]]

\* combine() taking the select list of rhs as it is: C3 does not hold of it
relabel_select_none(select, change_map) == select

relabel_select(select, change_map) ==
    [n \in 1..Len(select) |-> <<Relabel(change_map, select[n][1]), select[n][2]>>]

\* "if self.group_by: self.group_by = [relabel_column(col) ...]": None and
\* the empty list stay what they are
relabel_group_by(group_by, change_map) ==
    IF group_by = Nothing THEN Nothing
    ELSE Some(relabel_select(group_by[1], change_map))

\* The aggregates of a query, alias -> the column the aggregate is over
relabel_aggregates(aggregates, change_map) ==
    [key \in DOMAIN aggregates |->
        <<Relabel(change_map, aggregates[key][1]), aggregates[key][2]>>]

\* Step 2 of change_aliases for the join_map: every key gets its left alias
\* renamed and every alias tuple its members renamed
relabel_join_map(join_map, change_map) ==
    LET NewIdent(ident) == <<Relabel(change_map, ident[1]), ident[2], ident[3], ident[4]>>
        idents == {NewIdent(ident) : ident \in DOMAIN join_map}
        Old(new) == CHOOSE ident \in DOMAIN join_map : NewIdent(ident) = new
    IN [new \in idents |->
           [n \in 1..Len(join_map[Old(new)]) |-> Relabel(change_map, join_map[Old(new)][n])]]

\* Step 2 of change_aliases for alias_refcount, alias_map, the table_map list
\* and tables: one old alias after the other, in the order of 'keys'
RECURSIVE rename_aliases(_, _, _)
rename_aliases(Q, change_map, keys) ==
    IF keys = << >> THEN Q
    ELSE
      LET old_alias == Head(keys)
          new_alias == change_map[old_alias]
          alias_data == [Q.alias_map[old_alias] EXCEPT !.rhs_alias = new_alias]
          Q1 == [Q EXCEPT
                   !.alias_refcount = Del(Put(@, new_alias, Q.alias_refcount[old_alias]),
                                          old_alias),
                   !.alias_map = Del(Put(@, new_alias, alias_data), old_alias),
                   !.table_map[alias_data.table_name] = ReplaceFirst(@, old_alias, new_alias),
                   !.tables = ReplaceFirst(@, old_alias, new_alias)]
      IN rename_aliases(Q1, change_map, Tail(keys))

\* change_aliases without its last loop: C15 does not hold of it
relabel_lhs_none(alias_map, change_map) == alias_map

\* Step 3 of change_aliases: joins that refer to an old alias as their left side
relabel_lhs(alias_map, change_map) ==
    [a \in DOMAIN alias_map |->
        [alias_map[a] EXCEPT !.lhs_alias = Relabel(change_map, @)]]

\* "for key, alias in self.included_inherited_models.items()"
relabel_inherited(included, change_map) ==
    [key \in DOMAIN included |-> Relabel(change_map, included[key])]

ChangeMapValues(change_map) == {change_map[k] : k \in DOMAIN change_map}

\* 'keys' is the order in which the dictionary change_map is walked
change_aliases(Q, change_map, keys) ==
    IF DOMAIN change_map \cap ChangeMapValues(change_map) # {}
    THEN [q |-> Q, error |-> "AssertionError"]
    ELSE LET Q1 == [Q EXCEPT
                      !.where = relabel_aliases(@, change_map),
                      !.having = relabel_aliases(@, change_map),
                      !.group_by = relabel_group_by(@, change_map),
                      !.select = relabel_select(@, change_map),
                      !.aggregates = relabel_aggregates(@, change_map),
                      !.join_map = relabel_join_map(@, change_map)]
             Q2 == rename_aliases(Q1, change_map, keys)
         IN [q |-> [Q2 EXCEPT
                      !.included_inherited_models = relabel_inherited(@, change_map),
                      !.alias_map = relabel_lhs(@, change_map)],
             error |-> None]

\* The change_map and the relabelled tables list that bump_prefix builds:
\* position pos (counted from 0) becomes prefix + pos unless excepted
BumpMap(Q, prefix, exceptions) ==
    LET idx == {n \in 1..Len(Q.tables) : Q.tables[n] \notin exceptions}
        Pos(a) == CHOOSE n \in idx : Q.tables[n] = a
    IN [a \in {Q.tables[n] : n \in idx} |-> AliasName(prefix, Pos(a) - 1)]

\* bump_prefix leaving the query as it is: C20 does not hold of it
bump_prefix_none(Q, exceptions) == [q |-> Q, error |-> None]

bump_prefix(Q, exceptions) ==
    LET current == ord(Q.alias_prefix) IN
    IF ~(current < ord("Z"))
    THEN [q |-> Q, error |-> "AssertionError"]
    ELSE LET prefix == chr(current + 1)
             change_map == BumpMap(Q, prefix, exceptions)
             keys == Filter(Q.tables, DOMAIN change_map)
             Q1 == [Q EXCEPT
                      !.alias_prefix = prefix,
                      !.tables = [n \in 1..Len(Q.tables) |->
                                     Relabel(change_map, Q.tables[n])]]
         IN change_aliases(Q1, change_map, keys)

----------------------------------------------------------------------------
(* Query Assembler: clone *)

\* Every attribute is copied; alias_map, alias_refcount, join_map, extra and
\* table_map with dict.copy(), select, tables and distinct_fields with [:],
\* where with deepcopy, used_aliases a new set (filter_is_sticky is off).
\* table_map.copy() copies the dictionary and not the lists in it: the
\* action Clone records that in 'shared'.
clone(Q) ==
    [alias_refcount |-> Q.alias_refcount,
     alias_map |-> Q.alias_map,
     table_map |-> Q.table_map,
     join_map |-> Q.join_map,
     tables |-> Q.tables,
     select |-> Q.select,
     where |-> Q.where,
     alias_prefix |-> Q.alias_prefix,
     model |-> Q.model,
     low_mark |-> Q.low_mark,
     high_mark |-> Q.high_mark,
     distinct |-> Q.distinct,
     distinct_fields |-> Q.distinct_fields,
     extra |-> Q.extra,
     included_inherited_models |-> Q.included_inherited_models,
     used_aliases |-> {},
     group_by |-> Q.group_by,
     having |-> Q.having,
     aggregates |-> Q.aggregates,
     aggregate_select_mask |-> Q.aggregate_select_mask,
     order_by |-> Q.order_by,
     default_ordering |-> Q.default_ordering,
     deferred_loading |-> Q.deferred_loading]

----------------------------------------------------------------------------
(* Filter Compiler: setup_joins, trim_joins, add_filter, add_fields *)

\* setup_joins raising MultiJoin with the references it took still held:
\* C19 does not hold of it
unref_all_none(Q, aliases) == Q

\* self.unref_alias(alias) for every alias of the list
RECURSIVE unref_all(_, _)
unref_all(Q, aliases) ==
    IF aliases = << >> THEN Q
    ELSE unref_all(unref_alias(Q, Head(aliases), 1), Tail(aliases))

\* The walk of setup_joins over names[pos..]; S holds its local variables
\* and its arguments can_reuse and allow_many.  The name of a foreign key
\* asks join() for its connection, the name of a relation to many rows for
\* one or two joins that reuse the aliases of can_reuse only, any other field
\* name ends the walk, an unknown name raises FieldError.
\* The local variables of setup_joins once join() returned j for the foreign
\* key rel
setup_joins_joined(S, rel, j) ==
    [S EXCEPT !.q = j.q, !.alias = j.alias,
              !.joins = Append(@, j.alias),
              !.opts = rel.table,
              !.target = rel.to_col,
              !.field_null = rel.null]

\* "if not allow_many and (m2m or not direct)": every alias of joins loses a
\* reference and MultiJoin(pos + 1) is raised.  The source counts pos from 0,
\* the walk here from 1: level is the number of names up to this one.
setup_joins_multi(S, pos) ==
    [S EXCEPT !.q = unref_all(@, S.joins), !.error = "MultiJoin", !.level = pos]

\* The second join of a many-to-many field, from the junction table (j1) to
\* the related table, returned j2
setup_joins_m2m(S, rel, j1, j2) ==
    [S EXCEPT !.q = j2.q, !.alias = j2.alias,
              !.joins = @ \o <<j1.alias, j2.alias>>,
              !.opts = rel.opts, !.target = "id", !.field_null = rel.null]

\* The first join of a relation to many rows returned j1: a reverse foreign
\* key is done, a many-to-many field joins the related table
setup_joins_many(S, rel, j1) ==
    IF rel.m2m /\ ~(j1.alias = rel.table2 /\ rel.from_col2 = rel.to_col2)
    THEN setup_joins_m2m(S, rel, j1,
                         join(j1.q, <<j1.alias, rel.table2, rel.from_col2, rel.to_col2>>,
                              S.can_reuse, FALSE, FALSE, TRUE))
    ELSE [S EXCEPT !.q = j1.q, !.alias = j1.alias,
                   !.joins = Append(@, j1.alias),
                   !.opts = rel.opts, !.target = "id", !.field_null = rel.null]

RECURSIVE setup_joins_loop(_, _, _)
setup_joins_loop(S, names, pos) ==
    IF pos > Len(names) THEN [S EXCEPT !.pos = Len(names)]
    ELSE
      LET name == IF names[pos] = "pk" THEN "id" ELSE names[pos]
          S1 == [S EXCEPT !.last = Append(@, Len(S.joins)), !.pos = pos]
      IN IF HasManyRelation(S.opts, name)
         THEN IF ~S.allow_many THEN setup_joins_multi(S1, pos)
              ELSE LET many == ManyRelation(S.opts, name)
                   IN setup_joins_loop(
                         setup_joins_many(S1, many,
                             join(S1.q, <<S1.alias, many.table1, many.from_col1, many.to_col1>>,
                                  S1.can_reuse, FALSE, FALSE, TRUE)),
                         names, pos + 1)
         ELSE IF HasRelation(S.opts, name)
         THEN LET rel == Relation(S.opts, name)
              IN setup_joins_loop(
                    setup_joins_joined(S1, rel,
                        join(S1.q, <<S1.alias, rel.table, rel.from_col, rel.to_col>>,
                             REUSE_ALL, FALSE, FALSE, rel.null)),
                    names, pos + 1)
         ELSE IF name \in FieldNames
         THEN [S1 EXCEPT !.target = name, !.field_null = FALSE]
         ELSE [S1 EXCEPT !.error = "FieldError"]

\* "if pos != len(names) - 1": names are left over after a plain field
setup_joins_end(S, names) ==
    IF S.error = None /\ S.pos # Len(names)
    THEN [S EXCEPT !.error = "FieldError"]
    ELSE S

\* can_reuse = None is REUSE_NONE: join() then reuses no alias
setup_joins(Q, names, alias, can_reuse, allow_many) ==
    setup_joins_end(setup_joins_loop([q |-> Q, alias |-> alias, joins |-> <<alias>>,
                                      last |-> <<0>>, opts |-> Q.model, target |-> None,
                                      field_null |-> FALSE, pos |-> 0, error |-> None,
                                      level |-> 0, can_reuse |-> can_reuse,
                                      allow_many |-> allow_many],
                                     names, 1),
                    names)

\* list.pop()
Pop(s) == [value |-> s[Len(s)], rest |-> SubSeq(s, 1, Len(s) - 1)]

\* trim_joins trimming a join whatever its type: C11 does not hold of it
RECURSIVE trim_loop_any_type(_)
trim_loop_any_type(S) ==
    IF ~(S.final > 1) THEN S
    ELSE
      LET info == S.q.alias_map[S.alias] IN
      IF S.col # info.rhs_join_col \/ S.nonnull_check
      THEN S
      ELSE LET final == S.final - 1
               popped == final = S.penultimate
           IN trim_loop_any_type([S EXCEPT
                           !.q = unref_alias(@, S.alias, 1),
                           !.alias = info.lhs_alias,
                           !.col = info.lhs_join_col,
                           !.join_list = SubSeq(@, 1, Len(@) - 1),
                           !.final = final,
                           !.penultimate = IF popped THEN Pop(S.last).value ELSE @,
                           !.last = IF popped THEN Pop(S.last).rest ELSE @])

\* The while loop of trim_joins; S holds its local variables
RECURSIVE trim_loop(_)
trim_loop(S) ==
    IF ~(S.final > 1) THEN S
    ELSE
      LET info == S.q.alias_map[S.alias] IN
      IF S.col # info.rhs_join_col \/ info.join_type # INNER \/ S.nonnull_check
      THEN S
      ELSE LET final == S.final - 1
               popped == final = S.penultimate
           IN trim_loop([S EXCEPT
                           !.q = unref_alias(@, S.alias, 1),
                           !.alias = info.lhs_alias,
                           !.col = info.lhs_join_col,
                           !.join_list = SubSeq(@, 1, Len(@) - 1),
                           !.final = final,
                           !.penultimate = IF popped THEN Pop(S.last).value ELSE @,
                           !.last = IF popped THEN Pop(S.last).rest ELSE @])

\* trim_joins that trims nothing: C7 does not hold of it
trim_joins_none(Q, target, join_list, last, trim, nonnull_check) ==
    [q |-> Q, col |-> target, alias |-> join_list[Len(join_list)],
     join_list |-> join_list, last |-> last, final |-> Len(join_list),
     penultimate |-> 0, nonnull_check |-> nonnull_check]

trim_joins(Q, target, join_list, last, trim, nonnull_check) ==
    LET final0 == Len(join_list)
        p1 == Pop(last)
        p2 == IF p1.value = final0 THEN Pop(p1.rest) ELSE p1
        forced == trim /\ final0 > 1
        extra == SubSeq(join_list, p2.value + 1, Len(join_list))
        p3 == IF forced THEN Pop(p2.rest) ELSE p2
        jl == IF forced THEN SubSeq(join_list, 1, p2.value) ELSE join_list
        S == [q |-> IF forced THEN unref_all(Q, extra) ELSE Q,
              col |-> IF forced THEN Q.alias_map[extra[1]].lhs_join_col ELSE target,
              alias |-> jl[Len(jl)],
              join_list |-> jl,
              last |-> p3.rest,
              final |-> IF forced THEN p2.value ELSE final0,
              penultimate |-> p3.value,
              nonnull_check |-> nonnull_check]
    IN trim_loop(S)

\* The for loop of the connector == OR branch of add_filter: ji and ti are
\* the positions of join_it and table_it.  promote_joins returns None, so
\* join_promote keeps its truth value and table_promote stays false.
RECURSIVE or_loop(_, _, _, _, _, _)
or_loop(Q, join_list, ji, ti, unconditional, join_promote) ==
    IF ji > Len(join_list) THEN [q |-> Q, ji |-> ji, ti |-> ti]
    ELSE
      LET j == join_list[ji]
          table == Q.tables[ti]
          uncond == unconditional \/ Q.alias_map[j].join_type = LOUTER
      IN IF j = table /\ Q.alias_refcount[j] > 1
         THEN or_loop(Q, join_list, ji + 1, ti + 1, uncond, join_promote)
         ELSE LET Q1 == IF join_promote THEN Q ELSE promote_joins(Q, <<j>>, uncond)
                  Q2 == IF table # j THEN promote_joins(Q1, <<table>>, FALSE) ELSE Q1
              IN [q |-> Q2, ji |-> ji + 1, ti |-> ti + 1]

\* "self.promote_joins(table_it, table_promote or join_promote)": the tables
\* the loop did not reach
or_tables(Q, ti, join_promote) ==
    promote_joins(Q, SubSeq(Q.tables, ti, Len(Q.tables)), join_promote)

\* "self.promote_joins(join_it, join_promote)": the joins the loop did not
\* reach, then the tables; r is where the loop stopped
or_rest(r, join_list, join_promote) ==
    or_tables(promote_joins(r.q, SubSeq(join_list, r.ji, Len(join_list)), join_promote),
              r.ti, join_promote)

or_promote(Q, join_list, join_promote) ==
    or_rest(or_loop(Q, join_list, 2, 2, FALSE, join_promote), join_list, join_promote)

\* A leaf of the predicate tree: (Constraint(alias, col, field), lookup_type, value)
\* added under 'connector'; 'negated' marks an entry whose own node was negated
Leaf(alias, col, lookup_type, value, connector, negated) ==
    [kind |-> "leaf", alias |-> alias, col |-> col, lookup_type |-> lookup_type,
     value |-> value, connector |-> connector, negated |-> negated]

\* The first alias of join_list that is LOUTER, None when there is none
FirstLouter(Q, join_list) ==
    LET idx == {n \in 1..Len(join_list) : Q.alias_map[join_list[n]].join_type = LOUTER}
    IN IF idx = {} THEN None
       ELSE join_list[CHOOSE n \in idx : \A m \in idx : n <= m]

\* The negate branch of add_filter after its promote_joins call.  The for
\* loop rebinds 'alias': the isnull guard that follows it is put on the alias
\* the loop stopped at.
negate_guard(Q1, join_list, alias, col, lookup_type, field_null) ==
    LET louter == IF Len(join_list) > 1 THEN FirstLouter(Q1, join_list) ELSE None
        j_col == IF louter = None THEN None ELSE Q1.alias_map[louter].rhs_join_col
        loop_alias == IF Len(join_list) > 1
                      THEN (IF louter = None THEN join_list[Len(join_list)] ELSE louter)
                      ELSE alias
    IN IF lookup_type = "isnull" THEN [q |-> Q1, error |-> None]
       ELSE IF louter # None /\ j_col = None
       THEN [q |-> Q1, error |-> "AssertionError"]
       ELSE LET Q2 == IF louter # None
                      THEN [Q1 EXCEPT !.where =
                              Append(@, Leaf(louter, j_col, "isnull", "True", AND, TRUE))]
                      ELSE Q1
            IN [q |-> IF field_null
                      THEN [Q2 EXCEPT !.where =
                              Append(@, Leaf(loop_alias, col, "isnull", "False", AND, FALSE))]
                      ELSE Q2,
                error |-> None]

\* "self.promote_joins(join_list)", then the guards of negate_guard
negate_filter(Q, join_list, alias, col, lookup_type, field_null) ==
    negate_guard(promote_joins(Q, join_list, FALSE), join_list, alias, col, lookup_type,
                 field_null)

\* The join types of the aliases of join_list in Q
JoinTypes(Q, join_list) == [n \in 1..Len(join_list) |-> Q.alias_map[join_list[n]].join_type]

\* What add_filter leaves: the query and the exception raised if any (r), and
\* of its local variables the constraint's alias and column, the trimmed
\* join_list, the joins of setup_joins and their types as trim_joins met them;
\* the set can_reuse as the call leaves it; and, if setup_joins raised
\* MultiJoin, what it left (multi): the query, its list joins and the level
FilterResult(r, alias, col, join_list, joins, join_types, can_reuse, multi) ==
    [q |-> r.q, error |-> r.error, alias |-> alias, col |-> col,
     join_list |-> join_list, joins |-> joins, join_types |-> join_types,
     can_reuse |-> can_reuse, multi |-> multi]

\* "if can_reuse is not None: can_reuse.update(join_list)"
update_reuse(can_reuse, join_list) ==
    IF can_reuse.kind = "set" THEN ReuseSet(can_reuse.aliases \cup Range(join_list))
    ELSE can_reuse

\* The end of add_filter; r is what the where-clause part left
filter_done(r, sj, tj, join_types, can_reuse) ==
    FilterResult(r, tj.alias, tj.col, tj.join_list, sj.joins, join_types,
                 IF r.error = None THEN update_reuse(can_reuse, tj.join_list) ELSE can_reuse,
                 Nothing)

\* "if (alias, col) not in self.group_by: self.group_by.append((alias, col))"
\* for a group_by that is a list
group_by_append(group_by, col) ==
    IF group_by = Nothing THEN Nothing
    ELSE IF col \in Range(group_by[1]) THEN group_by
    ELSE Some(Append(group_by[1], col))

\* add_filter from "if having_clause or force_having:" on: the leaf goes to
\* the HAVING or to the WHERE tree ('in' applied to a group_by that is None
\* raises TypeError), then the negate branch.
\* sj is what setup_joins returned, tj what trim_joins returned.
filter_where(Q, sj, tj, join_types, lookup_type, value, connector, negate, can_reuse, having) ==
    LET leaf == Leaf(tj.alias, tj.col, lookup_type, value, connector, FALSE)
        Q3 == IF having
              THEN [Q EXCEPT !.group_by = group_by_append(@, <<tj.alias, tj.col>>),
                             !.having = Append(@, leaf)]
              ELSE [Q EXCEPT !.where = Append(@, leaf)]
    IN filter_done(IF having /\ Q.group_by = Nothing
                   THEN [q |-> Q, error |-> "TypeError"]
                   ELSE IF negate
                   THEN negate_filter(Q3, tj.join_list, tj.alias, tj.col, lookup_type,
                                      sj.field_null)
                   ELSE [q |-> Q3, error |-> None],
                   sj, tj, join_types, can_reuse)

\* add_filter from "if connector == OR:" on; Q1 is the query trim_joins was
\* called on
filter_connector(sj, Q1, tj, join_promote, lookup_type, value, connector, negate, can_reuse, having) ==
    filter_where(IF connector = OR
                 THEN or_promote(tj.q, tj.join_list, join_promote)
                 ELSE tj.q,
                 sj, tj, JoinTypes(Q1, sj.joins), lookup_type, value, connector, negate,
                 can_reuse, having)

\* add_filter from its trim_joins call on
filter_trim(sj, Q1, join_promote, lookup_type, value, connector, negate, trim, can_reuse, having) ==
    filter_connector(sj, Q1,
                     trim_joins(Q1, sj.target, sj.joins, sj.last, trim,
                                lookup_type = "isnull" /\ value = "False"),
                     join_promote, lookup_type, value, connector, negate, can_reuse, having)

\* add_filter after setup_joins returned: an isnull=True lookup promotes the
\* joins
filter_joined(sj, lookup_type, value, connector, negate, trim, can_reuse, having) ==
    LET join_promote == /\ lookup_type = "isnull" /\ value = "True"
                        /\ ~negate /\ Len(sj.joins) > 1
    IN filter_trim(sj,
                   IF join_promote THEN promote_joins(sj.q, sj.joins, FALSE) ELSE sj.q,
                   join_promote, lookup_type, value, connector, negate, trim, can_reuse,
                   having)

\* The positions, counted from 0, of the refcounts that are not 0 in
\* query.alias_refcount.values().  'order' is the order the dictionary is
\* walked in: a list of the positions its keys have in query.tables.
active_positions(query, order) ==
    LET keys == SelectSeq(order, LAMBDA n : n <= Len(query.tables))
    IN {n - 1 : n \in {m \in 1..Len(keys) :
                          query.alias_refcount[query.tables[keys[m]]] # 0}}

Max(S) == CHOOSE n \in S : \A m \in S : m <= n

\* The loop of set_start over joins[1:], from position n of joins on: while
\* the join starts at the selected column and is INNER, the selected alias
\* loses a reference and the select moves to the right-hand side of the join
RECURSIVE set_start_loop(_, _, _, _, _)
set_start_loop(Q, joins, n, select_alias, select_col) ==
    IF n > Len(joins) THEN [q |-> Q, alias |-> select_alias, col |-> select_col]
    ELSE LET join_info == Q.alias_map[joins[n]] IN
         IF join_info.lhs_join_col # select_col \/ join_info.join_type # INNER
         THEN [q |-> Q, alias |-> select_alias, col |-> select_col]
         ELSE set_start_loop(unref_alias(Q, select_alias, 1), joins, n + 1,
                             join_info.rhs_alias, join_info.rhs_join_col)

\* "self.select = [SelectInfo((select_alias, select_col), None)]", then
\* remove_inherited_models; r is what the loop left
set_start_select(r) ==
    remove_inherited_models([r.q EXCEPT !.select = << <<r.alias, r.col>> >>])

\* set_start after setup_joins returned sj for the initial alias 'alias'
set_start_joined(sj, alias) ==
    set_start_select(set_start_loop(unref_all(sj.q, sj.joins), sj.joins, 2, alias,
                                    sj.q.alias_map[sj.joins[2]].lhs_join_col))

\* set_start after get_initial_alias, which returned ia
set_start_names(ia, start) ==
    set_start_joined(setup_joins(ia.q, start, ia.alias, REUSE_ALL, TRUE), ia.alias)

\* set_start(start) for a path 'start' of the query that ends at a relation
set_start(Q, start) == set_start_names(get_initial_alias(Q), start)

\* The leaf of a comparison with a subquery: the Query object that is its
\* value is held under 'query'
SubqueryLeaf(leaf, query) ==
    [kind |-> "leaf", alias |-> leaf.alias, col |-> leaf.col,
     lookup_type |-> leaf.lookup_type, value |-> leaf.value,
     connector |-> leaf.connector, negated |-> leaf.negated, query |-> query]

\* The subquery of split_exclude once set_start has set its select list:
\* the selected column must not be NULL
subquery_where(query) ==
    [query EXCEPT !.where = Append(@, Leaf(query.select[1][1], query.select[1][2],
                                           "isnull", "False", AND, FALSE))]

RECURSIVE add_filter(_, _, _, _, _, _, _, _, _, _)

\* The end of split_exclude; r is what add_filter(prefix__in=query) left of
\* self and multi what setup_joins left when it raised MultiJoin
split_exclude_null(r, query, prefix, order, multi) ==
    IF r.error # None
    THEN FilterResult(r, None, None, << >>, multi.joins, << >>, r.can_reuse, Some(multi))
    ELSE IF active_positions(query, order) = {}
    THEN FilterResult([q |-> r.q, error |-> "IndexError"], None, None, << >>,
                      multi.joins, << >>, r.can_reuse, Some(multi))
    ELSE IF Max(active_positions(query, order)) > 1
    THEN [add_filter(r.q, prefix, "isnull", "False", AND, TRUE, TRUE, r.can_reuse, order, FALSE)
            EXCEPT !.alias = None, !.col = None, !.join_list = << >>,
                   !.joins = multi.joins, !.join_types = << >>, !.multi = Some(multi)]
    ELSE FilterResult(r, None, None, << >>, multi.joins, << >>, r.can_reuse, Some(multi))

\* "self.add_filter(('%s__in' % prefix, query), negate=True, trim=True,
\* can_reuse=can_reuse)" left r; the leaf it added after the n entries the
\* WHERE tree had holds the query
split_exclude_in(r, n, query, prefix, order, multi) ==
    split_exclude_null(IF r.error # None THEN r
                       ELSE [r EXCEPT !.q.where[n + 1] = SubqueryLeaf(@, query)],
                       query, prefix, order, multi)

\* split_exclude once the subquery is built.  clear_ordering(True) changes
\* none of the attributes kept here.
split_exclude_query(Q, query, prefix, can_reuse, order, multi) ==
    split_exclude_in(add_filter(Q, prefix, "in", "Query", AND, TRUE, TRUE, can_reuse, order,
                                FALSE),
                     Len(Q.where), query, prefix, order, multi)

\* split_exclude after "query.add_filter(filter_expr)", which left r: the
\* subquery is relabelled and starts at the prefix
split_exclude_filtered(Q, r, prefix, can_reuse, order, multi) ==
    IF r.error # None
    THEN FilterResult([q |-> Q, error |-> r.error], None, None, << >>, multi.joins, << >>,
                      can_reuse, Some(multi))
    ELSE split_exclude_query(Q, subquery_where(set_start(bump_prefix(r.q, {}).q, prefix)),
                             prefix, can_reuse, order, multi)

\* split_exclude(filter_expr, prefix, can_reuse) on the query that
\* setup_joins left when it raised MultiJoin
split_exclude(Q, names, lookup_type, value, prefix, can_reuse, order, multi) ==
    split_exclude_filtered(Q,
                           add_filter(Query(Q.model), names, lookup_type, value, AND, FALSE,
                                      FALSE, REUSE_NONE, order, FALSE),
                           prefix, can_reuse, order, multi)

\* add_filter after setup_joins: FieldError leaves it, MultiJoin goes to
\* split_exclude with the names up to the level
filter_joins(sj, names, lookup_type, value, connector, negate, trim, can_reuse, order, having) ==
    IF sj.error = "MultiJoin"
    THEN split_exclude(sj.q, names, lookup_type, value, SubSeq(names, 1, sj.level),
                       can_reuse, order,
                       [q |-> sj.q, joins |-> sj.joins, level |-> sj.level])
    ELSE IF sj.error # None
    THEN FilterResult([q |-> sj.q, error |-> sj.error], None, None, << >>, sj.joins, << >>,
                      can_reuse, Nothing)
    ELSE filter_joined(sj, lookup_type, value, connector, negate, trim, can_reuse, having)

\* add_filter after get_initial_alias, which returned ia
filter_names(ia, names, lookup_type, value, connector, negate, trim, can_reuse, order, having) ==
    filter_joins(setup_joins(ia.q, names, ia.alias, can_reuse, trim \/ ~negate),
                 names, lookup_type, value, connector, negate, trim, can_reuse, order,
                 having)

\* An ExpressionNode that refers to the aggregate 'total' of the query
\* (F('total')): SQLEvaluator(value, self).contains_aggregate is True
AggregateExpression == "F(total)"

\* The entry add_filter puts into the HAVING tree for a filter on an
\* aggregate alias
AggregateLeaf(aggregate, lookup_type, value, connector, negated) ==
    [kind |-> "aggregate", aggregate |-> aggregate, lookup_type |-> lookup_type,
     value |-> value, connector |-> connector, negated |-> negated]

\* "for alias, aggregate in self.aggregates.items(): if alias in (parts[0],
\* LOOKUP_SEP.join(parts))": the aliases that name the path; no alias of the
\* model holds the separator
aggregate_aliases(Q, names) == {alias \in DOMAIN Q.aggregates : alias = names[1]}

\* add_filter from the loop over self.aggregates on: a filter on an
\* aggregate alias goes to the HAVING tree and the call returns
filter_aggregates(Q, names, lookup_type, value, connector, negate, trim, can_reuse, order, having) ==
    IF aggregate_aliases(Q, names) # {}
    THEN FilterResult([q |-> [Q EXCEPT !.having =
                                 Append(@, AggregateLeaf(Q.aggregates[names[1]], lookup_type,
                                                         value, connector, negate))],
                       error |-> None],
                      None, None, << >>, << >>, << >>, can_reuse, Nothing)
    ELSE filter_names(get_initial_alias(Q), names, lookup_type, value, connector, negate,
                      trim, can_reuse, order, having)

\* add_filter without its rule for None: every value is taken as it is given
add_filter_lax(Q, names, lookup_type0, value0, connector, negate, trim, can_reuse, order, force_having) ==
    filter_aggregates(Q, names, lookup_type0, IF value0 = None THEN "True" ELSE value0,
                      connector, negate, trim, can_reuse, order, force_having)

\* add_filter((names__lookup_type, value), connector, negate, trim, can_reuse,
\* force_having).  split_exclude is given the lookup as the __exact=None rule
\* has read it, which reads it the same way again.
add_filter(Q, names, lookup_type0, value0, connector, negate, trim, can_reuse, order, force_having) ==
    IF value0 = None /\ lookup_type0 # "exact"
    THEN FilterResult([q |-> Q, error |-> "ValueError"], None, None, << >>, << >>, << >>,
                      can_reuse, Nothing)
    ELSE filter_aggregates(Q, names,
                           IF value0 = None THEN "isnull" ELSE lookup_type0,
                           IF value0 = None THEN "True" ELSE value0,
                           connector, negate, trim, can_reuse, order,
                           force_having \/ value0 = AggregateExpression)

\* add_fields([name]) after setup_joins, which returned sj: one select entry,
\* the join of a trailing foreign key onto its own join column dropped again
fields_joins(sj) ==
    IF sj.error # None THEN [q |-> sj.q, error |-> sj.error]
       ELSE
         LET final_alias == sj.joins[Len(sj.joins)]
             info == sj.q.alias_map[final_alias]
             trimmed == Len(sj.joins) > 1 /\ sj.target = info.rhs_join_col
             Q1 == IF trimmed THEN unref_alias(sj.q, final_alias, 1) ELSE sj.q
             joins == IF trimmed THEN SubSeq(sj.joins, 1, Len(sj.joins) - 1) ELSE sj.joins
             Q2 == promote_joins(Q1, Tail(joins), FALSE)
             entry == IF trimmed THEN <<info.lhs_alias, info.lhs_join_col>>
                      ELSE <<final_alias, sj.target>>
         IN [q |-> remove_inherited_models([Q2 EXCEPT !.select = Append(@, entry)]),
             error |-> None]

\* add_fields after get_initial_alias, which returned ia
fields_names(ia, names) ==
    fields_joins(setup_joins(ia.q, names, ia.alias, REUSE_ALL, TRUE))

add_fields(Q, names) == fields_names(get_initial_alias(Q), names)

----------------------------------------------------------------------------
(* Query Assembler: combine *)

\* The loop of combine over rhs.tables[1:]; S holds self, the reuse set and
\* change_map
\* S once join() returned j for the alias of rhs
combine_joined(S, alias, j) ==
    [q |-> j.q, reuse |-> S.reuse \ {j.alias},
     change_map |-> Put(S.change_map, alias, j.alias)]

RECURSIVE combine_joins(_, _, _, _)
combine_joins(S, rhs, n, conjunction) ==
    IF n > Len(rhs.tables) THEN S
    ELSE
      LET alias == rhs.tables[n] IN
      IF rhs.alias_refcount[alias] = 0
      THEN combine_joins(S, rhs, n + 1, conjunction)
      ELSE LET info == rhs.alias_map[alias]
               promote == info.join_type = LOUTER
               lhs == Relabel(S.change_map, info.lhs_alias)
           IN combine_joins(
                 combine_joined(S, alias,
                     join(S.q, <<lhs, info.table_name, info.lhs_join_col, info.rhs_join_col>>,
                          ReuseSet(S.reuse), promote, ~conjunction, info.nullable)),
                 rhs, n + 1, conjunction)

\* "Update r_tables aliases": the keys of change_map are walked in the order
\* 'keys', each active one removed from r_tables and its image added
RECURSIVE update_r_tables(_, _, _, _)
update_r_tables(r_tables, rhs, change_map, keys) ==
    IF keys = << >> THEN r_tables
    ELSE LET alias == Head(keys) IN
         update_r_tables(IF alias \in r_tables /\ rhs.alias_refcount[alias] # 0
                         THEN (r_tables \ {alias}) \cup {change_map[alias]}
                         ELSE r_tables,
                         rhs, change_map, Tail(keys))

\* The aliases combine promotes for connector OR
outer_tables(Q, rhs, change_map, keys) ==
    LET l_tables == Range(Q.tables)
        r_tables == update_r_tables(Range(rhs.tables), rhs, change_map, keys)
    IN {alias \in (l_tables \cup r_tables) \ (l_tables \cap r_tables) :
           \/ Get(Q.alias_refcount, alias, 0) # 0
           \/ Get(rhs.alias_refcount, alias, 0) # 0}

\* promote_joins([alias], True) for every alias of the set S
RECURSIVE promote_each(_, _)
promote_each(Q, S) ==
    IF S = {} THEN Q
    ELSE LET alias == CHOOSE a \in S : TRUE
         IN promote_each(promote_joins(Q, <<alias>>, TRUE), S \ {alias})

Everything == [kind |-> "everything"]
Subtree(children, connector) ==
    [kind |-> "subtree", children |-> children, connector |-> connector]

\* The where-clause part of combine: a relabelled copy of rhs.where is added
\* to self.where under 'connector'
combine_where(where, rhs_where, change_map, connector) ==
    IF rhs_where # << >>
    THEN (IF where = << >> THEN <<Everything>> ELSE where)
         \o <<Subtree(relabel_aliases(rhs_where, change_map), connector)>>
    ELSE IF where # << >>
    THEN where \o <<Subtree(<<Everything>>, connector)>>
    ELSE where \o <<Subtree(<< >>, connector)>>

\* combine after its loop over the joins of rhs, which left S: the promotion
\* for OR, the where tree and the select list
combine_rest(S, rhs, connector, keys) ==
    LET Q1 == IF connector = AND THEN S.q
              ELSE promote_each(S.q, outer_tables(S.q, rhs, S.change_map, keys))
    IN [q |-> [Q1 EXCEPT
                 !.where = combine_where(@, rhs.where, S.change_map, connector),
                 !.select = relabel_select(rhs.select, S.change_map)],
        change_map |-> S.change_map]

\* 'keys' is the order in which the dictionary change_map is walked
combine(Q, rhs, connector, keys) ==
    LET conjunction == connector = AND
        reuse == IF conjunction THEN {} ELSE Range(Q.tables)
    IN combine_rest(combine_joins([q |-> get_initial_alias(Q).q, reuse |-> reuse,
                                   change_map |-> EmptyDict],
                                  rhs, 2, conjunction),
                    rhs, connector, keys)

----------------------------------------------------------------------------
(* Query Assembler: limits, distinct, extra, and combine as a whole *)

Min(a, b) == IF a < b THEN a ELSE b

\* dict.update(other)
Update(d, other) ==
    [x \in DOMAIN d \cup DOMAIN other |-> IF x \in DOMAIN other THEN other[x] ELSE d[x]]

\* set_limits() without the clamp of low_mark to high_mark: C36 does not
\* hold of it
set_limits_unclamped(Q, low, high) ==
    LET high_mark == IF high # Nothing
                     THEN (IF Q.high_mark # Nothing
                           THEN Some(Min(Q.high_mark[1], Q.low_mark + high[1]))
                           ELSE Some(Q.low_mark + high[1]))
                     ELSE Q.high_mark
    IN [Q EXCEPT !.low_mark = IF low # Nothing THEN @ + low[1] ELSE @,
                 !.high_mark = high_mark]

set_limits(Q, low, high) ==
    LET high_mark == IF high # Nothing
                     THEN (IF Q.high_mark # Nothing
                           THEN Some(Min(Q.high_mark[1], Q.low_mark + high[1]))
                           ELSE Some(Q.low_mark + high[1]))
                     ELSE Q.high_mark
        low_mark == IF low # Nothing
                    THEN (IF high_mark # Nothing
                          THEN Min(high_mark[1], Q.low_mark + low[1])
                          ELSE Q.low_mark + low[1])
                    ELSE Q.low_mark
    IN [Q EXCEPT !.low_mark = low_mark, !.high_mark = high_mark]

\* clear_limits()
clear_limits(Q) == [Q EXCEPT !.low_mark = 0, !.high_mark = Nothing]

\* "return not self.low_mark and self.high_mark is None"
can_filter(Q) == Q.low_mark = 0 /\ Q.high_mark = Nothing

add_distinct_fields(Q, field_names) ==
    [Q EXCEPT !.distinct_fields = field_names, !.distinct = TRUE]

\* add_extra(select, None, None, None, None, None): select maps a column
\* alias to its SQL, which holds no placeholder
add_extra(Q, select) ==
    IF DOMAIN select # {}
    THEN [Q EXCEPT !.extra = Update(@, [name \in DOMAIN select |-> <<select[name], << >> >>])]
    ELSE Q

\* combine() without its check of the distinct fields: C12 does not hold of it
combine_asserts_lax(Q, rhs) ==
    IF Q.model # rhs.model \/ ~can_filter(Q) \/ Q.distinct # rhs.distinct
    THEN "AssertionError"
    ELSE None

\* The four assertions combine() starts with
combine_asserts(Q, rhs) ==
    IF \/ Q.model # rhs.model
       \/ ~can_filter(Q)
       \/ Q.distinct # rhs.distinct
       \/ Q.distinct_fields # rhs.distinct_fields
    THEN "AssertionError"
    ELSE None

\* The end of combine(): r is what its joins, where tree and select list
\* left; extra is merged and the ordering of rhs is taken unless it has none
combine_extra(r, rhs, connector) ==
    IF connector = OR /\ DOMAIN r.q.extra # {} /\ DOMAIN rhs.extra # {}
    THEN [q |-> r.q, change_map |-> r.change_map, error |-> "ValueError"]
    ELSE [q |-> [r.q EXCEPT !.extra = Update(@, rhs.extra),
                            !.order_by = IF rhs.order_by # << >> THEN rhs.order_by ELSE @],
          change_map |-> r.change_map, error |-> None]

\* combine() looking at extra before it touches self: C13 does not hold of it
combine_call_extra_first(Q, rhs, connector, keys) ==
    IF combine_asserts(Q, rhs) # None
    THEN [q |-> Q, change_map |-> EmptyDict, error |-> combine_asserts(Q, rhs)]
    ELSE IF connector = OR /\ DOMAIN Q.extra # {} /\ DOMAIN rhs.extra # {}
    THEN [q |-> Q, change_map |-> EmptyDict, error |-> "ValueError"]
    ELSE combine_extra(combine(remove_inherited_models(Q), rhs, connector, keys),
                       rhs, connector)

\* combine() from its assertions to its merge of extra; 'keys' is the order
\* in which the dictionary change_map is walked
combine_call(Q, rhs, connector, keys) ==
    IF combine_asserts(Q, rhs) # None
    THEN [q |-> Q, change_map |-> EmptyDict, error |-> combine_asserts(Q, rhs)]
    ELSE combine_extra(combine(remove_inherited_models(Q), rhs, connector, keys),
                       rhs, connector)

----------------------------------------------------------------------------
(* Filter Compiler: add_q *)

\* A Q object: a lookup (path, lookup type, value), or a node of lookups and
\* nodes under a connector
QLookup(names, lookup_type, value) ==
    [kind |-> "lookup", names |-> names, lookup_type |-> lookup_type, value |-> value]
QNode(connector, negated, children) ==
    [kind |-> "node", connector |-> connector, negated |-> negated, children |-> children]

\* The loop of promote_unused_aliases over self.tables, from position n on
RECURSIVE promote_unused_loop(_, _, _, _)
promote_unused_loop(Q, initial_refcounts, used_aliases, n) ==
    IF n > Len(Q.tables) THEN Q
    ELSE LET alias == Q.tables[n] IN
         promote_unused_loop(
             IF /\ alias \in used_aliases
                /\ \/ alias \notin DOMAIN initial_refcounts
                   \/ Q.alias_refcount[alias] = initial_refcounts[alias]
             THEN promote_joins(Q, <<alias>>, FALSE)
             ELSE Q,
             initial_refcounts, used_aliases, n + 1)

promote_unused_aliases(Q, initial_refcounts, used_aliases) ==
    promote_unused_loop(Q, initial_refcounts, used_aliases, 1)

\* where.start_subtree(connector) ... where.end_subtree(): the entries added
\* after the first n are one subtree under 'connector'
end_subtree(where, n, connector) ==
    SubSeq(where, 1, n) \o <<Subtree(SubSeq(where, n + 1, Len(where)), connector)>>

\* where.negate(): the logical-not flag of the current subtree
Negated == [kind |-> "negated"]

\* add_q keeps S: the query, the exception raised if any, the nodes it has
\* finished, the arms of the node it is in, and the order dictionaries are
\* walked in.  An arm is a child that was
\* handled: the connector it was added under, the query before it, after it
\* (filtered) and after the promotion that follows it.
\* add_filter(child, connector, negated, can_reuse=used_aliases,
\* force_having=False) left r (no query that add_q is called on has an
\* aggregate, so that need_force_having() is False):
\* the set it was given as can_reuse is self.used_aliases
add_q_filtered(S, r) ==
    [S EXCEPT !.q = [r.q EXCEPT !.used_aliases = r.can_reuse.aliases],
              !.error = r.error]

RECURSIVE add_q(_, _)
add_q_child(S, child, connector, negated) ==
    IF child.kind = "node" THEN add_q(S, child)
    ELSE add_q_filtered(S, add_filter(S.q, child.names, child.lookup_type, child.value,
                                      connector, negated, FALSE,
                                      ReuseSet(S.q.used_aliases), S.order, FALSE))

\* The arm is recorded; r holds the query before the promotion
add_q_arm(S, r, after, connector) ==
    [r EXCEPT !.q = after,
              !.arms = Append(S.arms, [connector |-> connector, before |-> S.q,
                                       filtered |-> r.q, after |-> after])]

\* "if connector == OR: self.promote_unused_aliases(refcounts_before, used_aliases)"
add_q_promote(S, r, connector) ==
    add_q_arm(S, r,
              IF connector = OR
              THEN promote_unused_aliases(r.q, S.q.alias_refcount, r.q.used_aliases)
              ELSE r.q,
              connector)

\* The body of the loop over the children after the child was handled, which
\* left r: S is what the loop had before the child
add_q_handled(S, r, connector) ==
    IF r.error # None THEN [r EXCEPT !.arms = S.arms]
    ELSE add_q_promote(S, [r EXCEPT !.q.where = end_subtree(@, Len(S.q.where), connector)],
                       connector)

\* The loop of add_q over q_object.children from child k on; the first child
\* is added under AND, the others under q_object.connector
RECURSIVE add_q_children(_, _, _, _)
add_q_children(S, q_object, k, connector) ==
    IF S.error # None \/ k > Len(q_object.children) THEN S
    ELSE add_q_children(
             add_q_handled(S, add_q_child(S, q_object.children[k], connector,
                                          q_object.negated),
                           connector),
             q_object, k + 1, q_object.connector)

\* The end of add_q: the node is negated, the subtree that was opened for it
\* after the first n entries is closed
add_q_where(where, n, negated, subtree) ==
    LET w == IF negated THEN Append(where, Negated) ELSE where
    IN IF subtree THEN end_subtree(w, n, AND) ELSE w

\* S is what add_q was called with, r what the loop over the children left
add_q_end(S, r, q_object, subtree) ==
    IF r.error # None THEN [r EXCEPT !.arms = S.arms]
    ELSE [r EXCEPT !.q.where = add_q_where(@, Len(S.q.where), q_object.negated, subtree),
                   !.nodes = Append(@, [connector |-> q_object.connector,
                                        negated |-> q_object.negated,
                                        arms |-> r.arms]),
                   !.arms = S.arms]

add_q(S, q_object) ==
    add_q_end(S, add_q_children([S EXCEPT !.arms = << >>], q_object, 1, AND), q_object,
              /\ S.q.where # << >>
              /\ q_object.connector # AND
              /\ Len(q_object.children) > 1)

\* self.add_q(q_object)
add_q_call(Q, q_object, order) ==
    add_q([q |-> Q, error |-> None, nodes |-> << >>, arms |-> << >>, order |-> order],
          q_object)

----------------------------------------------------------------------------
(* Query Assembler: aggregates and GROUP BY *)

\* add_aggregate once trim_joins returned tj: the joins are promoted, and
\* aggregate.add_to_query() enters the aggregate, over the column
\* (join_list[-1], col), under its alias
aggregate_trimmed(tj, alias) ==
    [q |-> [promote_joins(tj.q, tj.join_list, TRUE) EXCEPT
              !.aggregates = Put(@, alias, <<tj.join_list[Len(tj.join_list)], tj.col>>)],
     error |-> None]

\* add_aggregate after setup_joins, which returned sj
aggregate_joins(sj, alias) ==
    IF sj.error # None THEN [q |-> sj.q, error |-> sj.error]
    ELSE aggregate_trimmed(trim_joins(sj.q, sj.target, sj.joins, sj.last, FALSE, FALSE),
                           alias)

\* add_aggregate after get_initial_alias, which returned ia
aggregate_names(ia, field_list, alias) ==
    aggregate_joins(setup_joins(ia.q, field_list, ia.alias, REUSE_ALL, TRUE), alias)

\* add_aggregate(aggregate, model, alias, is_summary) for an aggregate over
\* the path field_list of the query's model: over an annotation, over a path
\* that is explored by setup_joins, or over a column named as it is
add_aggregate(Q, field_list, alias, is_summary) ==
    IF Len(field_list) = 1 /\ field_list[1] \in DOMAIN Q.aggregates
    THEN IF ~is_summary THEN [q |-> Q, error |-> "FieldError"]
         ELSE [q |-> [Q EXCEPT !.aggregates = Put(@, alias, <<None, field_list[1]>>)],
               error |-> None]
    ELSE IF \/ Len(field_list) > 1
            \/ field_list[1] \notin FieldNames \cup RelationNames
            \/ Q.group_by = Nothing
            \/ ~is_summary
    THEN aggregate_names(get_initial_alias(Q), field_list, alias)
    ELSE [q |-> [Q EXCEPT !.aggregates = Put(@, alias, <<None, field_list[1]>>)],
          error |-> None]

\* set_group_by(): the columns of the select list
set_group_by(Q) ==
    [Q EXCEPT !.group_by = Some([n \in 1..Len(Q.select) |-> Q.select[n]])]

\* set_aggregate_mask(names)
set_aggregate_mask(Q, names) == [Q EXCEPT !.aggregate_select_mask = names]

\* The property aggregate_select: the aggregates that are not masked
aggregate_select(Q) ==
    IF Q.aggregate_select_mask # Nothing
    THEN [k \in DOMAIN Q.aggregates \cap Q.aggregate_select_mask[1] |-> Q.aggregates[k]]
    ELSE Q.aggregates

\* The column add_count_column counts: '*', the one selected column, or for
\* a distinct count without a select list the primary key of the base alias
count_column(Q) ==
    IF Q.select # << >> THEN [q |-> Q, col |-> Q.select[1]]
    ELSE IF ~Q.distinct THEN [q |-> Q, col |-> <<None, "*">>]
    ELSE LET j == join(Q, <<None, Q.model, None, None>>, REUSE_ALL, FALSE, FALSE, FALSE)
         IN [q |-> j.q, col |-> <<j.alias, "id">>]

\* add_count_column(): the count is the only aggregate of the query
add_count_column(Q) ==
    IF Len(Q.select) > 1 THEN [q |-> Q, error |-> "AssertionError"]
    ELSE [q |-> [count_column(Q).q EXCEPT
                   !.distinct = FALSE,
                   !.aggregates = [k \in {None} |-> count_column(Q).col],
                   !.aggregate_select_mask = Nothing,
                   !.group_by = Nothing],
          error |-> None]

\* get_count() counting in a subquery only when the select list is
\* long: C25 does not hold of it
count_in_subquery_select(Q) == Len(Q.select) > 1

\* "if len(self.select) > 1 or self.aggregate_select or (self.distinct and
\* self.distinct_fields)"
count_in_subquery(Q) ==
    \/ Len(Q.select) > 1
    \/ DOMAIN aggregate_select(Q) # {}
    \/ (Q.distinct /\ Q.distinct_fields # << >>)

\* get_count() taking the number as it comes: C24 does not hold of it
count_limits_none(Q, number) == number

Max2(a, b) == IF a > b THEN a ELSE b

\* "number = max(0, number - self.low_mark)" and the cap at high_mark
count_limits(Q, number) ==
    LET clamped == Max2(0, number - Q.low_mark)
    IN IF Q.high_mark # Nothing THEN Min(clamped, Q.high_mark[1] - Q.low_mark)
       ELSE clamped

\* get_count(using) on a database where the query, its ordering and limits
\* cleared, matches 'number' rows; 'empty' says that add_subquery raised
\* EmptyResultSet.  obj is the query the count column was added to: the
\* clone, or the AggregateQuery around the clone.
get_count(Q, number, empty) ==
    LET wrapped == count_in_subquery(Q)
        obj == IF wrapped THEN Query(Q.model) ELSE clone(Q)
        counted == add_count_column(obj)
    IN IF wrapped /\ empty
       THEN [number |-> 0, wrapped |-> wrapped, obj |-> obj, error |-> None]
       ELSE IF counted.error # None
       THEN [number |-> 0, wrapped |-> wrapped, obj |-> counted.q, error |-> counted.error]
       ELSE [number |-> count_limits(Q, number), wrapped |-> wrapped, obj |-> counted.q,
             error |-> None]

----------------------------------------------------------------------------
(* Composite Attribute Codec *)

\* A text is a sequence of characters; a value of a field is a text or
\* NoneValue (Python's None, which is no text: "None" is no character)
COMPOSITE_VALUE_SEPARATOR == ","
COMPOSITE_VALUE_QUOTING_CHAR == "~"
NoneValue == <<None>>

\* quote(s, unsafe_chars, escape) of django.utils.encoding: every unsafe
\* character and every escape character of s is escaped
RECURSIVE quote(_, _, _)
quote(s, unsafe_chars, escape) ==
    IF s = << >> THEN << >>
    ELSE (IF Head(s) \in unsafe_chars \cup {escape} THEN <<escape, Head(s)>>
          ELSE <<Head(s)>>)
         \o quote(Tail(s), unsafe_chars, escape)

\* unquote(s, escape) of django.utils.encoding: the character after an
\* escape character is taken as it is
RECURSIVE unquote(_, _)
unquote(s, escape) ==
    IF s = << >> THEN << >>
    ELSE IF Head(s) = escape /\ Len(s) > 1
    THEN <<s[2]>> \o unquote(SubSeq(s, 3, Len(s)), escape)
    ELSE <<Head(s)>> \o unquote(Tail(s), escape)

\* str.split(sep): the parts of s between the occurrences of sep
RECURSIVE split(_, _)
split(s, sep) ==
    IF \A n \in 1..Len(s) : s[n] # sep THEN <<s>>
    ELSE LET n == CHOOSE k \in 1..Len(s) : s[k] = sep /\ \A m \in 1..(k - 1) : s[m] # sep
         IN <<SubSeq(s, 1, n - 1)>> \o split(SubSeq(s, n + 1, Len(s)), sep)

\* sep.join(parts)
RECURSIVE str_join(_, _)
str_join(sep, parts) ==
    IF parts = << >> THEN << >>
    ELSE IF Len(parts) = 1 THEN parts[1]
    ELSE parts[1] \o <<sep>> \o str_join(sep, Tail(parts))

\* force_text(v) of a text is the text, of None the text 'None'
force_text(v) == IF v = NoneValue THEN <<"N", "o", "n", "e">> ELSE v

\* CompositeValue.__str__(): the text of a composite value v
CompositeValue_str(v) ==
    <<"(">>
    \o str_join(COMPOSITE_VALUE_SEPARATOR,
                [n \in 1..Len(v) |-> quote(force_text(v[n]), {COMPOSITE_VALUE_SEPARATOR},
                                           COMPOSITE_VALUE_QUOTING_CHAR)])
    \o <<")">>

\* The values to_python is given: None, a text, or a list or tuple of values
NoneGiven == [kind |-> "none"]
Text(s) == [kind |-> "text", text |-> s]
List(items) == [kind |-> "list", items |-> items]

\* "value[1:-1].split(COMPOSITE_VALUE_SEPARATOR)", every part unquoted
text_parts(s) ==
    LET parts == split(SubSeq(s, 2, Len(s) - 1), COMPOSITE_VALUE_SEPARATOR)
    IN [n \in 1..Len(parts) |-> unquote(parts[n], COMPOSITE_VALUE_QUOTING_CHAR)]

\* The list to_python checks the length of
to_python_items(fields, value) ==
    CASE value.kind = "none" -> [n \in 1..Len(fields) |-> NoneValue]
      [] value.kind = "text" -> text_parts(value.text)
      [] OTHER -> value.items

\* to_python() without its check of the length: C28 does not hold of it
to_python_unchecked(fields, value) ==
    [value |-> to_python_items(fields, value), error |-> None]

\* CompositeField.to_python(value) for a composite of the fields 'fields',
\* which are text fields: their to_python() returns a text or None as it is
to_python(fields, value) ==
    IF Len(to_python_items(fields, value)) # Len(fields)
    THEN [value |-> << >>, error |-> "ValueError"]
    ELSE [value |-> to_python_items(fields, value), error |-> None]


\* A field of the model: its name and its column
Field(name) == [name |-> name, column |-> name]

\* Constraint(alias, col, field) and InConstraint(alias, cols, fields, values)
Constraint(alias, col, field) == [alias |-> alias, col |-> col, field |-> field]
InConstraint(alias, cols, fields, values) ==
    [alias |-> alias, cols |-> cols, fields |-> fields, values |-> values]

\* constraint_class() after its children were added with AND
ConstraintNode(children) == [connector |-> AND, children |-> children]

\* zip(targets, sources, value) stops with the shortest of the three
zip_len(targets, sources, value) ==
    CHOOSE n \in 0..Len(targets) :
       /\ n <= Len(sources) /\ n <= Len(value)
       /\ n = Len(targets) \/ n = Len(sources) \/ n = Len(value)

\* get_composite_in_constraint(constraint_class, alias, targets, sources, values)
get_composite_in_constraint(alias, targets, sources, values) ==
    ConstraintNode(<< [kind |-> "in",
                       constraint |-> InConstraint(alias,
                                         [n \in 1..Len(targets) |-> targets[n].column],
                                         sources, values)] >>)

\* The 'exact' branch of get_lookup_constraint for the decoded value
exact_constraint(alias, targets, sources, value) ==
    ConstraintNode([n \in 1..zip_len(targets, sources, value) |->
                      [kind |-> "leaf",
                       constraint |-> Constraint(alias, targets[n].column, sources[n]),
                       lookup_type |-> "exact", value |-> value[n]]])

\* The raw value of an 'in' lookup is a list of raw values
Values(items) == [kind |-> "values", items |-> items]

\* get_lookup_constraint() pairing the targets with the values from the
\* last to the first: C29 does not hold of it
get_lookup_constraint_reversed(fields, alias, targets, sources, lookup_type, raw_value) ==
    IF lookup_type = "exact"
    THEN IF to_python(fields, raw_value).error # None
         THEN [constraint |-> Nothing, error |-> to_python(fields, raw_value).error]
         ELSE [constraint |-> Some(exact_constraint(alias, targets, sources,
                                     [n \in 1..Len(fields) |->
                                        to_python(fields, raw_value).value[Len(fields) + 1 - n]])),
               error |-> None]
    ELSE [constraint |-> Nothing, error |-> "TypeError"]

\* CompositeField.get_lookup_constraint(constraint_class, alias, targets,
\* sources, lookup_type, raw_value) of a composite of the fields 'fields'
get_lookup_constraint(fields, alias, targets, sources, lookup_type, raw_value) ==
    IF lookup_type = "exact"
    THEN IF to_python(fields, raw_value).error # None
         THEN [constraint |-> Nothing, error |-> to_python(fields, raw_value).error]
         ELSE [constraint |-> Some(exact_constraint(alias, targets, sources,
                                                    to_python(fields, raw_value).value)),
               error |-> None]
    ELSE IF lookup_type = "in"
    THEN IF \E n \in 1..Len(raw_value.items) : to_python(fields, raw_value.items[n]).error # None
         THEN [constraint |-> Nothing, error |-> "ValueError"]
         ELSE [constraint |-> Some(get_composite_in_constraint(alias, targets, sources,
                                     [n \in 1..Len(raw_value.items) |->
                                        to_python(fields, raw_value.items[n]).value])),
               error |-> None]
    ELSE [constraint |-> Nothing, error |-> "TypeError"]

----------------------------------------------------------------------------
(* Ordering *)

\* The characters of a field name: letters, digits, '_' and '.'
WordChars == {"a", "1", "_", "."}

\* ORDER_PATTERN.match(item): '?', or a name with an optional '-' or '+'
\* before it; an item is a sequence of characters
ORDER_PATTERN_match(item) ==
    \/ item = <<"?">>
    \/ /\ item # << >>
       /\ LET name == IF Head(item) \in {"-", "+"} THEN Tail(item) ELSE item
          IN name # << >> /\ \A n \in 1..Len(name) : name[n] \in WordChars

\* "errors": the items of ordering that do not match, in their order
RECURSIVE ordering_errors(_)
ordering_errors(ordering) ==
    IF ordering = << >> THEN << >>
    ELSE (IF ORDER_PATTERN_match(Head(ordering)) THEN << >> ELSE <<Head(ordering)>>)
         \o ordering_errors(Tail(ordering))

\* add_ordering() raising at the first item that does not match: C30 does
\* not hold of it
add_ordering_first(Q, ordering) ==
    IF ordering_errors(ordering) # << >>
    THEN [q |-> Q, error |-> "FieldError", errors |-> <<Head(ordering_errors(ordering))>>]
    ELSE IF ordering # << >>
    THEN [q |-> [Q EXCEPT !.order_by = @ \o ordering], error |-> None, errors |-> << >>]
    ELSE [q |-> [Q EXCEPT !.default_ordering = FALSE], error |-> None, errors |-> << >>]

\* Query.add_ordering(*ordering); errors is the list its FieldError shows
add_ordering(Q, ordering) ==
    IF ordering_errors(ordering) # << >>
    THEN [q |-> Q, error |-> "FieldError", errors |-> ordering_errors(ordering)]
    ELSE IF ordering # << >>
    THEN [q |-> [Q EXCEPT !.order_by = @ \o ordering], error |-> None, errors |-> << >>]
    ELSE [q |-> [Q EXCEPT !.default_ordering = FALSE], error |-> None, errors |-> << >>]

\* Query.clear_ordering(force_empty)
clear_ordering(Q, force_empty) ==
    [Q EXCEPT !.order_by = << >>,
              !.default_ordering = IF force_empty THEN FALSE ELSE @]

----------------------------------------------------------------------------
(* Deferred Loading *)

\* field.resolve_basic_fields() of a field that is no composite: the field
resolve_basic_fields(name) == {name}

\* resolve_basic_deferred_fields(field_names) for names without a relation
\* before them: the names of the basic fields of every field named
resolve_basic_deferred_fields(Q, field_names) ==
    UNION {resolve_basic_fields(name) : name \in field_names}

\* add_deferred_loading() that adds the names in both modes: C37 does not
\* hold of it
add_deferred_loading_union(Q, field_names) ==
    [Q EXCEPT !.deferred_loading =
        [names |-> @.names \cup resolve_basic_deferred_fields(Q, field_names),
         defer |-> @.defer]]

\* Query.add_deferred_loading(field_names)
add_deferred_loading(Q, field_names) ==
    IF Q.deferred_loading.defer
    THEN [Q EXCEPT !.deferred_loading =
            [names |-> @.names \cup resolve_basic_deferred_fields(Q, field_names),
             defer |-> TRUE]]
    ELSE [Q EXCEPT !.deferred_loading =
            [names |-> @.names \ resolve_basic_deferred_fields(Q, field_names),
             defer |-> FALSE]]

\* "if 'pk' in field_names": pk is replaced by the name of the primary key
pk_named(field_names) ==
    IF "pk" \in field_names THEN (field_names \ {"pk"}) \cup {"id"} ELSE field_names

\* Query.add_immediate_loading(field_names)
add_immediate_loading(Q, field_names) ==
    IF Q.deferred_loading.defer
    THEN [Q EXCEPT !.deferred_loading =
            [names |-> resolve_basic_deferred_fields(Q, pk_named(field_names)) \ @.names,
             defer |-> FALSE]]
    ELSE [Q EXCEPT !.deferred_loading =
            [names |-> resolve_basic_deferred_fields(Q, pk_named(field_names)),
             defer |-> FALSE]]

\* Query.clear_deferred_loading()
clear_deferred_loading(Q) ==
    [Q EXCEPT !.deferred_loading = [names |-> {}, defer |-> TRUE]]

----------------------------------------------------------------------------
(* The loop of promote_joins, one turn at a time *)

\* A turn of the loop that takes the alias for not yet LOUTER whatever its
\* join type is: C40 does not hold of it
promote_joins_turn_again(Q, aliases, unconditional) ==
    LET alias == Head(aliases)
        info == Q.alias_map[alias]
        parent_louter == /\ info.lhs_alias # None
                         /\ Q.alias_map[info.lhs_alias].join_type = LOUTER
    IN IF IsBaseTable(Q, alias) THEN [q |-> Q, aliases |-> Tail(aliases), changed |-> FALSE]
       ELSE IF unconditional \/ info.nullable \/ parent_louter
       THEN [q |-> [Q EXCEPT !.alias_map[alias].join_type = LOUTER],
             aliases |-> Tail(aliases) \o Children(Q, alias, Tail(aliases)),
             changed |-> TRUE]
       ELSE [q |-> Q, aliases |-> Tail(aliases), changed |-> FALSE]

\* One turn of "while aliases:" in promote_joins: the first alias is popped
\* and, when its join type changes, the aliases joined to it that are not in
\* the list are appended
promote_joins_turn(Q, aliases, unconditional) ==
    LET alias == Head(aliases)
        info == Q.alias_map[alias]
        parent_louter == /\ info.lhs_alias # None
                         /\ Q.alias_map[info.lhs_alias].join_type = LOUTER
        already_louter == info.join_type = LOUTER
    IN IF IsBaseTable(Q, alias) THEN [q |-> Q, aliases |-> Tail(aliases), changed |-> FALSE]
       ELSE IF (unconditional \/ info.nullable \/ parent_louter) /\ ~already_louter
       THEN [q |-> [Q EXCEPT !.alias_map[alias].join_type = LOUTER],
             aliases |-> Tail(aliases) \o Children(Q, alias, Tail(aliases)),
             changed |-> TRUE]
       ELSE [q |-> Q, aliases |-> Tail(aliases), changed |-> FALSE]
----------------------------------------------------------------------------
(* The calls made on the Query objects *)

Aliases(Q) == DOMAIN Q.alias_map

\* The number of relabellings a query has been through
Bumps(Q) == ord(Q.alias_prefix) - ord(alias_prefix)

\* The bounds a specification puts on the calls it makes
Bounds(aliases, refcount, base, where, promote) ==
    [aliases |-> aliases, refcount |-> refcount, base |-> base, where |-> where,
     promote |-> promote]

WithinBounds(Q, b) ==
    /\ Len(Q.tables) <= b.aliases
    /\ \A a \in DOMAIN Q.alias_refcount :
          Q.alias_refcount[a] <= (IF a = Q.tables[1] THEN b.base ELSE b.refcount)

\* What a specification keeps of a call: all of it, or its name and receiver
Call(detail, c) == IF detail THEN c ELSE [op |-> c.op, self |-> c.self]

\* Query i becomes Qnew.  A list that both queries hold is one object: what
\* the call did to it shows in the other query's table_map too.
Commit(i, Qnew, c) ==
    /\ q' = [k \in QueryIds |->
                IF k = i THEN Qnew
                ELSE [q[k] EXCEPT !.table_map =
                        [t \in DOMAIN @ |-> IF t \in shared THEN Qnew.table_map[t]
                                            ELSE @[t]]]]
    /\ shared' = shared
    /\ call' = c

\* All orders of the elements of a set
RECURSIVE Perms(_)
Perms(S) ==
    IF S = {} THEN { << >> }
    ELSE UNION { {<<a>> \o p : p \in Perms(S \ {a})} : a \in S }

\* The aliases of rhs that combine maps: all but the base alias, referenced
ActiveJoins(rhs) ==
    {rhs.tables[n] : n \in {m \in 2..Len(rhs.tables) : rhs.alias_refcount[rhs.tables[m]] # 0}}

NoCall == [op |-> "__init__", self |-> 0]

Init ==
    /\ q = [i \in QueryIds |-> NewQuery]
    /\ shared = {}
    /\ call = NoCall

GetInitialAlias(i, b, d) ==
    \E r \in {get_initial_alias(q[i])} :
    /\ WithinBounds(r.q, b)
    /\ Commit(i, r.q, Call(d, [op |-> "get_initial_alias", self |-> i, alias |-> r.alias]))

\* The reuse arguments of join(): REUSE_ALL, None, and the sets of one
\* alias, be it one that join_map holds for the connection or the left alias
ReuseArgs(Q, connection) ==
    {REUSE_ALL, REUSE_NONE}
        \cup {ReuseSet({a}) : a \in Range(Get(Q.join_map, connection, << >>)) \cup {connection[1]}}

\* join() for a relation of the model of lhs, as setup_joins and combine call it
Join(i, b, d) ==
    \E lhs \in Aliases(q[i]), rel \in Relations, promote \in BOOLEAN,
       outer_if_first \in BOOLEAN :
      \E reuse \in ReuseArgs(q[i], <<lhs, rel.table, rel.from_col, rel.to_col>>) :
        LET connection == <<lhs, rel.table, rel.from_col, rel.to_col>> IN
        /\ q[i].alias_map[lhs].table_name = rel.model
        /\ \E r \in {join(q[i], connection, reuse, promote, outer_if_first, rel.null)} :
           /\ WithinBounds(r.q, b)
           /\ Commit(i, r.q, Call(d, [op |-> "join", self |-> i,
                                      connection |-> connection, reuse |-> reuse,
                                      promote |-> promote,
                                      outer_if_first |-> outer_if_first,
                                      nullable |-> rel.null,
                                      alias |-> r.alias, new |-> r.new]))

AliasLists(Q, max) ==
    UNION {Perms(S) : S \in {T \in SUBSET Aliases(Q) : Cardinality(T) \in 1..max}}

PromoteJoins(i, b, d) ==
    \E aliases \in AliasLists(q[i], b.promote), unconditional \in BOOLEAN :
        \E Q \in {promote_joins(q[i], aliases, unconditional)} :
        Commit(i, Q,
               Call(d, [op |-> "promote_joins", self |-> i, aliases |-> aliases,
                        unconditional |-> unconditional,
                        promoted |-> {a \in Aliases(Q) :
                            Q.alias_map[a].join_type # q[i].alias_map[a].join_type}]))

\* An alias at the end of a chain: no referenced alias has it as its left side
IsLeaf(Q, alias) ==
    \A a \in Aliases(Q) : Q.alias_map[a].lhs_alias = alias => Q.alias_refcount[a] = 0

\* unref_alias as trim_joins, add_fields and setup_joins call it: on the
\* referenced alias at the end of a chain
UnrefAlias(i, d) ==
    \E alias \in Aliases(q[i]) :
        /\ q[i].alias_refcount[alias] > 0
        /\ q[i].alias_map[alias].lhs_alias # None
        /\ IsLeaf(q[i], alias)
        /\ Commit(i, unref_alias(q[i], alias, 1),
                  Call(d, [op |-> "unref_alias", self |-> i, alias |-> alias]))

\* The join lists setup_joins returns: the base alias followed by joins, each
\* the left side of the next, every one of them referenced
RECURSIVE ChainTo(_, _)
ChainTo(Q, alias) ==
    IF Q.alias_map[alias].lhs_alias = None THEN <<alias>>
    ELSE Append(ChainTo(Q, Q.alias_map[alias].lhs_alias), alias)

JoinLists(Q) ==
    {ChainTo(Q, a) : a \in {b \in Aliases(Q) :
        \A n \in 1..Len(ChainTo(Q, b)) : Q.alias_refcount[ChainTo(Q, b)[n]] > 0}}

\* trim_joins with the 'last' offsets setup_joins builds for a path of one
\* relation per join, followed by a plain field when with_field
TrimJoins(i, d) ==
    \E join_list \in JoinLists(q[i]), target \in FieldNames, with_field \in BOOLEAN,
       trim \in BOOLEAN, nonnull_check \in BOOLEAN :
        LET offsets == [n \in 1..(Len(join_list) + (IF with_field THEN 1 ELSE 0)) |-> n - 1]
        IN
        /\ with_field \/ (Len(join_list) > 1 /\ target = "id")
        /\ ~(trim /\ nonnull_check)
        /\ \E r \in {trim_joins(q[i], target, join_list, offsets, trim, nonnull_check)} :
           Commit(i, r.q, Call(d, [op |-> "trim_joins", self |-> i,
                                      join_list |-> join_list, target |-> target,
                                      trim |-> trim, nonnull_check |-> nonnull_check,
                                      col |-> r.col, alias |-> r.alias,
                                      trimmed |-> r.join_list]))

\* bump_prefix with no exceptions, as split_exclude calls it, or sparing the
\* base alias
BumpPrefix(i, d) ==
    /\ Bumps(q[i]) < MaxBump
    /\ q[i].tables # << >>
    /\ \E exceptions \in {{}, {q[i].tables[1]}} :
        \E r \in {bump_prefix(q[i], exceptions)} :
        Commit(i, r.q, Call(d, [op |-> "bump_prefix", self |-> i,
                                   exceptions |-> exceptions, error |-> r.error]))

\* The right-hand sides given to combine in Spec: queries on the same model,
\* built by join(), promote_joins() and a trailing unref_alias()
RhsBase == get_initial_alias(NewQuery).q
RhsJoin(Q, lhs, name, promote) ==
    LET rel == Relation(Q.alias_map[lhs].table_name, name)
    IN join(Q, <<lhs, rel.table, rel.from_col, rel.to_col>>, REUSE_NONE, promote, FALSE,
            rel.null).q
RhsQueries ==
    LET owner == RhsJoin(RhsBase, "item", "owner", FALSE)
        editor == RhsJoin(RhsBase, "item", "editor", TRUE)
        parent == RhsJoin(RhsBase, "item", "parent", FALSE)
    IN { RhsBase, owner, editor, parent,
         unref_alias(owner, "person", 1),
         RhsJoin(parent, "T2", "owner", FALSE),
         RhsJoin(promote_joins(parent, <<"T2">>, FALSE), "T2", "editor", FALSE),
         RhsJoin(owner, "item", "editor", FALSE),
         RhsJoin(owner, "item", "owner", FALSE) }

\* combine() as QuerySet.__and__ and __or__ call it: self was not relabelled
CombineWith(i, rhs, connector, b, d) ==
    /\ Bumps(q[i]) = 0
    /\ Len(q[i].where) < b.where
    /\ \E keys \in Perms(ActiveJoins(rhs)) :
        \E r \in {combine(q[i], rhs, connector, keys)} :
        /\ WithinBounds(r.q, b)
        /\ Commit(i, r.q, Call(d, [op |-> "combine", self |-> i, rhs |-> rhs,
                                   connector |-> connector,
                                   before |-> q[i],
                                   change_map |-> r.change_map]))

Combine(i, b, d) ==
    \E rhs \in RhsQueries, connector \in {AND, OR} : CombineWith(i, rhs, connector, b, d)

\* The lookups given to add_filter: a path of field names, a lookup type and
\* a value, and the way the filter is added
Paths ==
    { <<"name">>, <<"owner", "pk">>, <<"owner", "name">>, <<"editor", "name">>,
      <<"parent", "pk">>, <<"parent", "name">>, <<"parent", "editor", "name">> }
Lookups ==
    { [lookup_type |-> "exact", value |-> "5"],
      [lookup_type |-> "exact", value |-> None],
      [lookup_type |-> "isnull", value |-> "False"] }
Modes ==
    { [connector |-> AND, negate |-> FALSE, trim |-> FALSE],
      [connector |-> OR, negate |-> FALSE, trim |-> FALSE],
      [connector |-> AND, negate |-> TRUE, trim |-> FALSE],
      [connector |-> AND, negate |-> TRUE, trim |-> TRUE] }

FilterArgs == Paths \X Lookups \X Modes

\* A dictionary that is walked in the order its keys were put in; no
\* subquery that split_exclude builds here has more than four aliases
InsertionOrder == <<1, 2, 3, 4>>

\* add_filter((path__lookup_type, value), connector, negate, trim)
AddFilter(i, args, b, d) ==
    /\ Len(q[i].where) < b.where
    /\ \E arg \in args :
        LET names == arg[1]
            lk == arg[2]
            mode == arg[3]
        IN
        \E r \in {add_filter(q[i], names, lk.lookup_type, lk.value, mode.connector,
                             mode.negate, mode.trim, REUSE_NONE, InsertionOrder,
                             FALSE)} :
           Commit(i, r.q, Call(d, [op |-> "add_filter", self |-> i, names |-> names,
                                   lookup_type |-> lk.lookup_type, value |-> lk.value,
                                   connector |-> mode.connector, negate |-> mode.negate,
                                   trim |-> mode.trim, error |-> r.error,
                                   alias |-> r.alias, col |-> r.col,
                                   join_list |-> r.join_list, joins |-> r.joins,
                                   join_types |-> r.join_types]))

\* The right-hand sides given to combine in SpecFilter: queries on the same
\* model, built by add_filter and add_fields
Filtered(Q, names, lookup_type, value) ==
    add_filter(Q, names, lookup_type, value, AND, FALSE, FALSE, REUSE_NONE,
               InsertionOrder, FALSE).q
RhsFiltered ==
    LET owner_pk == Filtered(NewQuery, <<"owner", "pk">>, "exact", "5")
        editor == Filtered(NewQuery, <<"editor", "name">>, "exact", "5")
        parent == Filtered(NewQuery, <<"parent", "name">>, "exact", "5")
    IN { Filtered(NewQuery, <<"name">>, "exact", "5"),
         owner_pk, editor, parent,
         Filtered(owner_pk, <<"parent", "name">>, "exact", "5"),
         Filtered(NewQuery, <<"parent", "editor", "name">>, "exact", "5"),
         Filtered(NewQuery, <<"editor", "name">>, "exact", None),
         combine(editor, editor, AND, <<"person">>).q,
         add_fields(NewQuery, <<"owner", "name">>).q,
         add_fields(editor, <<"parent", "name">>).q }

CombineFiltered(i, b, d) ==
    \E rhs \in RhsFiltered, connector \in {AND, OR} :
        CombineWith(i, rhs, connector, b, d)

\* obj = q.clone(): the second object becomes a copy of the first.  The
\* per-table alias lists of table_map are not copied, both objects hold them.
Clone ==
    /\ q[1].tables # << >>
    /\ q[2] = NewQuery
    /\ q' = [q EXCEPT ![2] = clone(q[1])]
    /\ shared' = DOMAIN q[1].table_map
    /\ call' = [op |-> "clone", self |-> 1]

\* The one filter of SpecClone
CloneFilterArgs ==
    { << <<"owner", "name">>, [lookup_type |-> "exact", value |-> "5"],
         [connector |-> AND, negate |-> FALSE, trim |-> FALSE] >> }

\* Spec: one Query object and the calls of its join graph
SpecBounds == Bounds(MaxAliases, MaxRefcount, MaxBaseRefcount, MaxWhere, 1)
Next ==
    \/ GetInitialAlias(1, SpecBounds, FALSE)
    \/ Join(1, SpecBounds, FALSE)
    \/ PromoteJoins(1, SpecBounds, FALSE)
    \/ UnrefAlias(1, FALSE)
    \/ TrimJoins(1, FALSE)
    \/ BumpPrefix(1, FALSE)
    \/ Combine(1, SpecBounds, FALSE)

Spec == Init /\ [][Next]_vars

\* SpecJoin: get_initial_alias, join, promote_joins and unref_alias, each
\* call kept with its arguments and results
JoinBounds == Bounds(MaxAliases, MaxJoinRefcount, 1, MaxWhere, MaxPromote)
NextJoin ==
    \/ GetInitialAlias(1, JoinBounds, TRUE)
    \/ Join(1, JoinBounds, TRUE)
    \/ PromoteJoins(1, JoinBounds, TRUE)
    \/ UnrefAlias(1, TRUE)

SpecJoin == Init /\ [][NextJoin]_vars

\* SpecFilter: filters added to one Query object, its joins promoted, and
\* its combination with filtered queries
FilterBounds == Bounds(MaxAliases, MaxFilterRefcount, MaxFilterRefcount, MaxFilters, 1)
NextFilter ==
    \/ AddFilter(1, FilterArgs, FilterBounds, TRUE)
    \/ PromoteJoins(1, FilterBounds, TRUE)
    \/ CombineFiltered(1, FilterBounds, TRUE)

SpecFilter == Init /\ [][NextFilter]_vars

\* SpecClone: a Query object is built and cloned, then one of the two
\* objects is changed, the other one left alone
CloneBounds == Bounds(MaxCloneAliases, MaxCloneRefcount, MaxCloneRefcount, MaxWhere, 1)
Cloned(i) ==
    IF q[2] = NewQuery THEN i = 1 ELSE call.op = "clone" \/ call.self = i
NextClone ==
    \/ Clone
    \/ \E i \in QueryIds :
          /\ Cloned(i)
          /\ \/ GetInitialAlias(i, CloneBounds, FALSE)
             \/ Join(i, CloneBounds, FALSE)
             \/ PromoteJoins(i, CloneBounds, FALSE)
             \/ UnrefAlias(i, FALSE)
             \/ BumpPrefix(i, FALSE)
             \/ AddFilter(i, CloneFilterArgs, CloneBounds, FALSE)

SpecClone == Init /\ [][NextClone]_vars

\* SpecTrim: joins are built, promoted and trimmed, each call kept with its
\* arguments and results
NextTrim ==
    \/ GetInitialAlias(1, JoinBounds, TRUE)
    \/ Join(1, JoinBounds, TRUE)
    \/ PromoteJoins(1, JoinBounds, TRUE)
    \/ TrimJoins(1, TRUE)

SpecTrim == Init /\ [][NextTrim]_vars

\* set_limits as QuerySet.__getitem__ calls it, once: an offset, a limit or both
SetLimits(i, d) ==
    /\ can_filter(q[i])
    /\ \E low \in {Nothing, Some(1)}, high \in {Nothing, Some(2)} :
          /\ low # Nothing \/ high # Nothing
          /\ Commit(i, set_limits(q[i], low, high),
                    Call(d, [op |-> "set_limits", self |-> i, low |-> low, high |-> high]))

\* add_distinct_fields as QuerySet.distinct calls it: with no field, or one
AddDistinctFields(i, d) ==
    \E field_names \in {<< >>, <<"name">>} :
        Commit(i, add_distinct_fields(q[i], field_names),
               Call(d, [op |-> "add_distinct_fields", self |-> i,
                        field_names |-> field_names]))

\* The select argument of add_extra: one column alias
ExtraSelect == [is_recent |-> "1"]

AddExtra(i, d) ==
    Commit(i, add_extra(q[i], ExtraSelect), Call(d, [op |-> "add_extra", self |-> i]))

\* The right-hand sides given to combine in SpecCombine: queries that differ
\* in model, distinct, distinct fields, limits, extra and joins
RhsAttributed ==
    LET owner == Filtered(NewQuery, <<"owner", "name">>, "exact", "5")
        editor == Filtered(NewQuery, <<"editor", "name">>, "exact", "5")
    IN { owner, editor,
         get_initial_alias(Query("person")).q,
         add_distinct_fields(owner, << >>),
         add_distinct_fields(owner, <<"name">>),
         add_extra(editor, ExtraSelect),
         add_extra(Filtered(NewQuery, <<"name">>, "exact", "5"), ExtraSelect),
         set_limits(owner, Some(1), Nothing) }

\* combine() as a whole, whatever its outcome
CombineCall(i, b, d) ==
    /\ Bumps(q[i]) = 0
    /\ Len(q[i].where) < b.where
    /\ \E rhs \in RhsAttributed, connector \in {AND, OR} :
        \E keys \in Perms(ActiveJoins(rhs)) :
        \E r \in {combine_call(q[i], rhs, connector, keys)} :
        /\ WithinBounds(r.q, b)
        /\ Commit(i, r.q, Call(d, [op |-> "combine", self |-> i, rhs |-> rhs,
                                   connector |-> connector,
                                   before |-> q[i],
                                   change_map |-> r.change_map,
                                   error |-> r.error]))

\* The two filters of SpecCombine
CombineFilterArgs ==
    { << <<"owner", "name">>, [lookup_type |-> "exact", value |-> "5"],
         [connector |-> AND, negate |-> FALSE, trim |-> FALSE] >>,
      << <<"parent", "name">>, [lookup_type |-> "exact", value |-> "5"],
         [connector |-> AND, negate |-> FALSE, trim |-> FALSE] >> }

\* SpecCombine: a Query object is filtered, sliced, made distinct and given
\* extra select entries, and combined with queries that went through the same
NextCombine ==
    \/ AddFilter(1, CombineFilterArgs, FilterBounds, TRUE)
    \/ SetLimits(1, TRUE)
    \/ AddDistinctFields(1, TRUE)
    \/ AddExtra(1, TRUE)
    \/ CombineCall(1, FilterBounds, TRUE)

SpecCombine == Init /\ [][NextCombine]_vars

\* bump_prefix on a query however often it was relabelled: with no
\* exceptions, or sparing the base alias
BumpPrefixAgain(i, d) ==
    /\ q[i].tables # << >>
    /\ \E exceptions \in {{}, {q[i].tables[1]}} :
        \E r \in {bump_prefix(q[i], exceptions)} :
        Commit(i, r.q, Call(d, [op |-> "bump_prefix", self |-> i,
                                exceptions |-> exceptions, error |-> r.error]))

\* SpecBump: a Query object gets its joins and is relabelled again and again
NextBump ==
    \/ GetInitialAlias(1, CloneBounds, TRUE)
    \/ Join(1, CloneBounds, TRUE)
    \/ BumpPrefixAgain(1, TRUE)

SpecBump == Init /\ [][NextBump]_vars

\* setup_inherited_models as pre_sql_setup calls it: on a query with its base alias
SetupInheritedModels(i, d) ==
    /\ q[i].tables # << >>
    /\ Commit(i, setup_inherited_models(q[i]),
              Call(d, [op |-> "setup_inherited_models", self |-> i]))

\* The aliases a caller of change_aliases renames to, besides those the query has
NewNames == {"X1", "X2"}

\* The change maps given to change_aliases.  Some aliases of the query are
\* mapped to new names, each to its own, as bump_prefix (its one caller)
\* maps them; or they are mapped so that a value is a key as well, which
\* the assertion is there to reject.
ChangeMaps(Q) ==
    {m \in UNION {[K -> NewNames \cup Aliases(Q)] : K \in SUBSET Aliases(Q) \ {{}}} :
        \/ DOMAIN m \cap ChangeMapValues(m) # {}
        \/ /\ ChangeMapValues(m) \subseteq NewNames
           /\ \A a, b \in DOMAIN m : a # b => m[a] # m[b]}

\* change_aliases on a query that holds none of NewNames yet; 'keys' is the
\* order in which the dictionary change_map is walked
ChangeAliases(i, d) ==
    /\ Aliases(q[i]) \cap NewNames = {}
    /\ \E change_map \in ChangeMaps(q[i]) :
        \E keys \in Perms(DOMAIN change_map) :
        \E r \in {change_aliases(q[i], change_map, keys)} :
        Commit(i, r.q, Call(d, [op |-> "change_aliases", self |-> i,
                                change_map |-> change_map, error |-> r.error]))

\* SpecRelabel: a Query object gets its joins and has its aliases renamed,
\* by change_aliases and by bump_prefix
NextRelabel ==
    \/ GetInitialAlias(1, CloneBounds, TRUE)
    \/ Join(1, CloneBounds, TRUE)
    \/ SetupInheritedModels(1, TRUE)
    \/ ChangeAliases(1, TRUE)
    \/ BumpPrefix(1, TRUE)

SpecRelabel == Init /\ [][NextRelabel]_vars

\* The right-hand sides whose joins all are LOUTER: join() gives each of them
\* the type LOUTER without looking its left alias up in self.alias_map
RhsOuter ==
    { rhs \in RhsQueries :
        \A n \in 2..Len(rhs.tables) :
            rhs.alias_refcount[rhs.tables[n]] # 0
                => rhs.alias_map[rhs.tables[n]].join_type = LOUTER }

\* self.combine(rhs, AND) whether self was relabelled or not
CombineOuter(i, b, d) ==
    /\ Len(q[i].where) < b.where
    /\ \E rhs \in RhsOuter :
        \E keys \in Perms(ActiveJoins(rhs)) :
        \E r \in {combine(q[i], rhs, AND, keys)} :
        /\ WithinBounds(r.q, b)
        /\ Commit(i, r.q, Call(d, [op |-> "combine", self |-> i, rhs |-> rhs,
                                   connector |-> AND,
                                   before |-> q[i],
                                   change_map |-> r.change_map]))

\* SpecOuter: a Query object gets its joins, is relabelled, and is combined
\* under AND with queries whose joins are LOUTER
NextOuter ==
    \/ GetInitialAlias(1, SpecBounds, TRUE)
    \/ Join(1, SpecBounds, TRUE)
    \/ BumpPrefix(1, TRUE)
    \/ CombineOuter(1, SpecBounds, TRUE)

SpecOuter == Init /\ [][NextOuter]_vars

\* The Q objects given to add_q: lookups over the foreign keys of the model,
\* nodes of one or two lookups, nodes of a lookup and a node, and
\* disjunctions of a lookup and two nodes
QLookups ==
    { QLookup(<<"name">>, "exact", "5"),
      QLookup(<<"owner", "name">>, "exact", "5"),
      QLookup(<<"editor", "name">>, "exact", "5"),
      QLookup(<<"editor", "name">>, "exact", None),
      QLookup(<<"editor", "pk">>, "exact", "5"),
      QLookup(<<"parent", "editor", "name">>, "exact", "5") }
QInner ==
    { QNode(connector, FALSE, <<l1, l2>>) :
        connector \in {AND, OR},
        l1 \in {QLookup(<<"name">>, "exact", "5"), QLookup(<<"editor", "name">>, "exact", "5")},
        l2 \in {QLookup(<<"name">>, "exact", "5"), QLookup(<<"owner", "name">>, "exact", "5"),
                QLookup(<<"editor", "name">>, "exact", "5")} }
QObjects ==
    { QNode(connector, negated, <<l>>) :
        connector \in {AND, OR}, negated \in BOOLEAN, l \in QLookups }
    \cup { QNode(connector, negated, <<l1, l2>>) :
             connector \in {AND, OR}, negated \in BOOLEAN, l1 \in QLookups, l2 \in QLookups }
    \cup { QNode(connector, FALSE, <<l, n>>) :
             connector \in {AND, OR}, l \in QLookups, n \in QInner }
    \cup { QNode(connector, FALSE, <<n, l>>) :
             connector \in {AND, OR}, l \in QLookups, n \in QInner }
    \cup { QNode(OR, FALSE, <<l, QNode(AND, FALSE, <<QLookup(<<"name">>, "exact", "5")>>), n>>) :
             l \in {QLookup(<<"editor", "pk">>, "exact", "5"),
                    QLookup(<<"editor", "name">>, "exact", "5")},
             n \in QInner }

\* self.add_q(q_object)
AddQ(i, b, d) ==
    /\ Len(q[i].where) < b.where
    /\ \E q_object \in QObjects :
        \E r \in {add_q_call(q[i], q_object, InsertionOrder)} :
        /\ WithinBounds(r.q, b)
        /\ Commit(i, r.q, Call(d, [op |-> "add_q", self |-> i, q_object |-> q_object,
                                   before |-> q[i], error |-> r.error,
                                   nodes |-> r.nodes]))

\* The filters a query has before add_q is called on it
QFilterArgs ==
    { <<names, [lookup_type |-> "exact", value |-> "5"],
        [connector |-> AND, negate |-> negate, trim |-> FALSE]>> :
        names \in { <<"name">>, <<"owner", "name">>, <<"editor", "name">>,
                    <<"editor", "pk">>, <<"parent", "name">> },
        negate \in BOOLEAN }

\* SpecQ: a Query object gets filters and Q objects
QBounds == Bounds(MaxAliases, MaxQRefcount, MaxQRefcount, MaxFilters, 1)
NextQ ==
    \/ AddFilter(1, QFilterArgs, QBounds, TRUE)
    \/ AddQ(1, QBounds, TRUE)

SpecQ == Init /\ [][NextQ]_vars

\* The lookups over relations to many rows: a path, a lookup type and a
\* value, added as a filter or as an exclusion
ManyPaths ==
    { <<"tags", "name">>, <<"tags", "pk">>, <<"children", "name">>,
      <<"owner", "owned", "name">>, <<"parent", "tags", "name">> }
ManyLookups ==
    { [lookup_type |-> "exact", value |-> "5"],
      [lookup_type |-> "exact", value |-> None] }

\* The orders alias_refcount.values() may walk the aliases of a subquery in
DictOrders == Perms(Range(InsertionOrder))

\* add_filter((path__lookup_type, value), negate=negate, can_reuse=can_reuse)
\* for a path over a relation to many rows, can_reuse being None or the
\* aliases of the query; the order of a dictionary matters to split_exclude
\* only
AddManyFilter(i, b, d) ==
    /\ Len(q[i].where) < b.where
    /\ \E names \in ManyPaths, lk \in ManyLookups, negate \in BOOLEAN :
        \E order \in IF negate THEN DictOrders ELSE {InsertionOrder} :
        \E can_reuse \in {REUSE_NONE, ReuseSet(Aliases(q[i]))} :
        \E r \in {add_filter(q[i], names, lk.lookup_type, lk.value, AND, negate, FALSE,
                             can_reuse, order, FALSE)} :
        /\ WithinBounds(r.q, b)
        /\ Commit(i, r.q, Call(d, [op |-> "add_filter", self |-> i, names |-> names,
                                   lookup_type |-> lk.lookup_type, value |-> lk.value,
                                   connector |-> AND, negate |-> negate, trim |-> FALSE,
                                   can_reuse |-> can_reuse, before |-> q[i],
                                   error |-> r.error, multi |-> r.multi]))

\* The filters over foreign keys that SpecMany adds
ManyFilterArgs ==
    { <<names, [lookup_type |-> "exact", value |-> "5"],
        [connector |-> AND, negate |-> FALSE, trim |-> FALSE]>> :
        names \in { <<"owner", "name">>, <<"owner", "pk">>, <<"parent", "name">> } }

\* SpecMany: a Query object gets filters over foreign keys and filters and
\* exclusions over relations to many rows
ManyBounds == Bounds(MaxManyAliases, MaxManyRefcount, MaxFilterRefcount, MaxFilters, 1)
NextMany ==
    \/ AddFilter(1, ManyFilterArgs, ManyBounds, TRUE)
    \/ AddManyFilter(1, ManyBounds, TRUE)

SpecMany == Init /\ [][NextMany]_vars
----------------------------------------------------------------------------
(* Specifications of the lookup rules of add_filter *)

\* SpecNull: filters and exclusions whose value may be None, over plain
\* fields and over paths that end at a foreign key
NullPaths ==
    { <<"name">>, <<"owner">>, <<"editor">>, <<"editor", "name">>,
      <<"parent", "editor">>, <<"parent", "parent", "editor">> }
NullLookups ==
    { [lookup_type |-> "exact", value |-> "5"],
      [lookup_type |-> "exact", value |-> None],
      [lookup_type |-> "gt", value |-> "5"],
      [lookup_type |-> "gt", value |-> None],
      [lookup_type |-> "isnull", value |-> None] }
NullModes ==
    { [connector |-> AND, negate |-> FALSE, trim |-> FALSE],
      [connector |-> AND, negate |-> TRUE, trim |-> FALSE] }
NullArgs == NullPaths \X NullLookups \X NullModes

NextNull ==
    \/ AddFilter(1, NullArgs, FilterBounds, TRUE)

SpecNull == Init /\ [][NextNull]_vars

\* SpecHaving: a Query object gets an aggregate and a GROUP BY list, and
\* filters on its fields, on the aggregate alias and with force_having
AggregateAlias == "total"

\* add_aggregate(Count(path), model, 'total', is_summary=False)
AddAggregate(i, d) ==
    /\ AggregateAlias \notin DOMAIN q[i].aggregates
    /\ \E field_list \in { <<"name">>, <<"editor", "name">> } :
       \E r \in {add_aggregate(q[i], field_list, AggregateAlias, FALSE)} :
          Commit(i, r.q, Call(d, [op |-> "add_aggregate", self |-> i,
                                  names |-> field_list, error |-> r.error]))

\* set_group_by()
SetGroupBy(i, d) ==
    /\ q[i].group_by = Nothing
    /\ Commit(i, set_group_by(q[i]), Call(d, [op |-> "set_group_by", self |-> i]))

HavingPaths == { <<"name">>, <<"total">>, <<"editor", "name">>, <<"owner", "pk">> }
HavingLookups ==
    { [lookup_type |-> "exact", value |-> "5"],
      [lookup_type |-> "gt", value |-> "5"],
      [lookup_type |-> "exact", value |-> AggregateExpression] }

\* add_filter((path__lookup_type, value), connector, negate,
\* force_having=force_having); 'total' is a path and F('total') a value for
\* a query that has the aggregate only
AddHavingFilter(i, b, d) ==
    /\ Len(q[i].where) + Len(q[i].having) < b.where
    /\ \E names \in HavingPaths, lk \in HavingLookups, connector \in {AND},
          negate \in BOOLEAN, force_having \in BOOLEAN :
        /\ (names = <<"total">> \/ lk.value = AggregateExpression)
              => AggregateAlias \in DOMAIN q[i].aggregates
        /\ \E r \in {add_filter(q[i], names, lk.lookup_type, lk.value, connector,
                                negate, FALSE, REUSE_NONE, InsertionOrder, force_having)} :
              /\ WithinBounds(r.q, b)
              /\ Commit(i, r.q, Call(d, [op |-> "add_filter", self |-> i, names |-> names,
                                      lookup_type |-> lk.lookup_type, value |-> lk.value,
                                      connector |-> connector, negate |-> negate,
                                      trim |-> FALSE, force_having |-> force_having,
                                      error |-> r.error, alias |-> r.alias,
                                      col |-> r.col]))

HavingBounds == Bounds(MaxAliases, MaxHavingRefcount, MaxHavingRefcount, MaxFilters, 1)
NextHaving ==
    \/ AddAggregate(1, TRUE)
    \/ SetGroupBy(1, TRUE)
    \/ AddHavingFilter(1, HavingBounds, TRUE)

SpecHaving == Init /\ [][NextHaving]_vars

\* SpecCount: a Query object gets select entries, an aggregate, a mask,
\* distinct fields and slices, and is counted
\* add_fields([path])
AddFields(i, d) ==
    /\ Len(q[i].select) < MaxSelect
    /\ \E names \in { <<"name">>, <<"id">> } :
       \E r \in {add_fields(q[i], names)} :
          Commit(i, r.q, Call(d, [op |-> "add_fields", self |-> i, names |-> names,
                                  error |-> r.error]))

\* set_aggregate_mask(names) as values() calls it
SetAggregateMask(i, d) ==
    /\ q[i].aggregate_select_mask = Nothing
    /\ Commit(i, set_aggregate_mask(q[i], Some({})),
              Call(d, [op |-> "set_aggregate_mask", self |-> i]))

\* add_distinct_fields(*field_names), once
Distinct(i, d) ==
    /\ ~q[i].distinct
    /\ AddDistinctFields(i, d)

\* set_limits(low, high) as slicing a QuerySet calls it: with bounds that
\* are not negative
SliceLimits(i, d) ==
    \E low \in {Nothing} \cup {Some(n) : n \in 0..2},
       high \in {Nothing} \cup {Some(n) : n \in 0..MaxMark} :
        /\ low # Nothing \/ high # Nothing
        /\ set_limits(q[i], low, high).low_mark <= MaxMark
        /\ set_limits(q[i], low, high) # q[i]
        /\ Commit(i, set_limits(q[i], low, high),
                  Call(d, [op |-> "set_limits", self |-> i, low |-> low, high |-> high]))

\* get_count(using): the query as it is matches 'number' rows when its
\* limits are left out; EmptyResultSet is raised only when it matches none
GetCount(i, d) ==
    \E number \in 0..MaxRows, empty \in BOOLEAN :
        /\ empty => number = 0
        /\ \E r \in {get_count(q[i], number, empty)} :
              Commit(i, q[i], Call(d, [op |-> "get_count", self |-> i, rows |-> number,
                                       empty |-> empty, number |-> r.number,
                                       wrapped |-> r.wrapped, obj |-> r.obj,
                                       error |-> r.error]))

NextCount ==
    \/ AddFields(1, TRUE)
    \/ AddAggregate(1, TRUE)
    \/ SetAggregateMask(1, TRUE)
    \/ Distinct(1, TRUE)
    \/ SliceLimits(1, TRUE)
    \/ GetCount(1, TRUE)

SpecCount == Init /\ [][NextCount]_vars

\* SpecComposite: composite values of the model Person are converted to text
\* and texts, lists and None are given to to_python and get_lookup_constraint
Chars == {"a", COMPOSITE_VALUE_SEPARATOR, COMPOSITE_VALUE_QUOTING_CHAR}
Texts == UNION {[1..n -> Chars] : n \in 0..MaxTextLen}

\* Person.full_name = CompositeField('first_name', 'last_name'), and a
\* composite of one field
CompositeFields == { <<"first_name", "last_name">>, <<"first_name">> }

\* The value ("Jo,e", "Bloggs") and the text Jo~,e,Bloggs
JoeBloggs == << <<"J", "o", ",", "e">>, <<"B", "l", "o", "g", "g", "s">> >>
JoeBloggsText == <<"J", "o", "~", ",", "e", ",", "B", "l", "o", "g", "g", "s">>

CompositeValues(fields) ==
    [1..Len(fields) -> Texts] \cup (IF Len(fields) = 2 THEN {JoeBloggs} ELSE {})

\* What to_python is given apart from the text of a composite value: None,
\* lists of one to three values, and texts
GivenValues ==
    {NoneGiven}
    \cup {List(items) : items \in UNION {[1..n -> {<<"a">>, << >>, NoneValue}] : n \in 1..3}}
    \cup {Text(s) : s \in {JoeBloggsText, << >>, <<"(", ")">>, <<"(", "a", ")">>,
                           <<"(", "a", ",", "a", ")">>,
                           <<"(", "a", ",", "a", ",", "a", ")">>}}

InitComposite ==
    /\ q = [i \in QueryIds |-> NewQuery]
    /\ shared = {}
    /\ call = NoCall

\* str(value) of a composite value
Str ==
    /\ \E fields \in CompositeFields : \E v \in CompositeValues(fields) :
          call' = [op |-> "str", self |-> 0, fields |-> fields, value |-> v,
                   text |-> CompositeValue_str(v)]
    /\ UNCHANGED <<q, shared>>

\* to_python(text) of the text str() returned
ToPythonStr ==
    /\ call.op = "str"
    /\ \E r \in {to_python(call.fields, Text(call.text))} :
          call' = [op |-> "to_python", self |-> 0, fields |-> call.fields,
                   given |-> Text(call.text), value |-> r.value, error |-> r.error]
    /\ UNCHANGED <<q, shared>>

\* to_python(value)
ToPython ==
    /\ \E fields \in CompositeFields, given \in GivenValues :
       \E r \in {to_python(fields, given)} :
          call' = [op |-> "to_python", self |-> 0, fields |-> fields, given |-> given,
                   value |-> r.value, error |-> r.error]
    /\ UNCHANGED <<q, shared>>

\* The raw values of the lookups on a composite field: for 'exact' what
\* to_python is given, for 'in' lists of up to MaxInValues of them
InItems ==
    {NoneGiven, List(<< <<"a">>, << >> >>), List(<< <<"a">> >>),
     Text(<<"(", "a", ",", "a", ")">>)}
CompositeLookups ==
    {<<"exact", v>> : v \in GivenValues}
    \cup {<<"in", Values(items)>> : items \in UNION {[1..n -> InItems] : n \in 0..MaxInValues}}
    \cup {<<"gt", v>> : v \in {NoneGiven, List(<< <<"a">>, << >> >>)}}
    \cup {<<"isnull", v>> : v \in {NoneGiven}}

\* The alias of the table of Person in the query
PersonAlias == "person"

\* field.get_lookup_constraint(WhereNode, alias, targets, sources, lookup_type,
\* raw_value) of a composite field of the model, whose targets and sources
\* are its own fields
GetLookupConstraint ==
    /\ \E fields \in CompositeFields, lookup \in CompositeLookups :
       \E targets \in {[n \in 1..Len(fields) |-> Field(fields[n])]} :
       \E r \in {get_lookup_constraint(fields, PersonAlias, targets, targets,
                                       lookup[1], lookup[2])} :
          call' = [op |-> "get_lookup_constraint", self |-> 0, fields |-> fields,
                   alias |-> PersonAlias, targets |-> targets, lookup_type |-> lookup[1],
                   raw_value |-> lookup[2], constraint |-> r.constraint,
                   error |-> r.error]
    /\ UNCHANGED <<q, shared>>

NextComposite ==
    \/ Str
    \/ ToPythonStr
    \/ ToPython
    \/ GetLookupConstraint

SpecComposite == InitComposite /\ [][NextComposite]_vars


\* The items add_ordering is given: a name, a name in descending order, the
\* random order, and three items that do not match ORDER_PATTERN
OrderItems == { <<"a">>, <<"-", "a">>, <<"?">>, <<"a", " ">>, <<"-">>, << >> }
Orderings == UNION {[1..n -> OrderItems] : n \in 0..MaxOrdering}

\* add_ordering(*ordering)
AddOrdering(i, d) ==
    \E ordering \in Orderings :
       /\ Len(q[i].order_by) + Len(ordering) <= MaxOrderBy
       /\ \E r \in {add_ordering(q[i], ordering)} :
             Commit(i, r.q, Call(d, [op |-> "add_ordering", self |-> i,
                                     ordering |-> ordering, error |-> r.error,
                                     errors |-> r.errors]))

\* clear_ordering(force_empty)
ClearOrdering(i, d) ==
    \E force_empty \in BOOLEAN :
       Commit(i, clear_ordering(q[i], force_empty),
              Call(d, [op |-> "clear_ordering", self |-> i, force_empty |-> force_empty]))

NextOrdering ==
    \/ AddOrdering(1, TRUE)
    \/ ClearOrdering(1, TRUE)

SpecOrdering == Init /\ [][NextOrdering]_vars

----------------------------------------------------------------------------
(* Specifications of failing calls and of the frame of a call *)

\* SpecUnresolved: filters whose path may hold a name that is no field of
\* the model it is looked up in
UnresolvedPaths ==
    { <<"name">>, <<"owner", "name">>, <<"bogus">>, <<"owner", "bogus">>,
      <<"name", "bogus">>, <<"parent", "editor", "bogus">> }
UnresolvedArgs ==
    UnresolvedPaths \X {[lookup_type |-> "exact", value |-> "5"]}
                    \X {[connector |-> AND, negate |-> FALSE, trim |-> FALSE],
                        [connector |-> AND, negate |-> TRUE, trim |-> FALSE]}

\* add_filter((path__lookup_type, value), connector, negate) while what it
\* leaves is within the bounds b
AddFilterWithin(i, args, b, d) ==
    /\ Len(q[i].where) < b.where
    /\ \E arg \in args :
       \E r \in {add_filter(q[i], arg[1], arg[2].lookup_type, arg[2].value,
                            arg[3].connector, arg[3].negate, arg[3].trim, REUSE_NONE,
                            InsertionOrder, FALSE)} :
          /\ WithinBounds(r.q, b)
          /\ Commit(i, r.q, Call(d, [op |-> "add_filter", self |-> i, names |-> arg[1],
                                     lookup_type |-> arg[2].lookup_type,
                                     value |-> arg[2].value, negate |-> arg[3].negate,
                                     trim |-> arg[3].trim, error |-> r.error,
                                     joins |-> r.joins]))

NextUnresolved ==
    \/ AddFilterWithin(1, UnresolvedArgs, FilterBounds, TRUE)

SpecUnresolved == Init /\ [][NextUnresolved]_vars

\* SpecRhs: two Query objects get filters, the second may be a clone of the
\* first, and the first is combined with the second
RhsArgs ==
    { <<"owner", "name">>, <<"parent", "name">> }
       \X {[lookup_type |-> "exact", value |-> "5"]}
       \X {[connector |-> AND, negate |-> FALSE, trim |-> FALSE]}

\* q[1].combine(q[2], connector), as QuerySet.__and__ and __or__ call it
CombineRhs(b, d) ==
    /\ Bumps(q[1]) = 0
    /\ q[2].tables # << >>
    /\ Len(q[1].where) < b.where
    /\ \E connector \in {AND, OR} :
       \E keys \in Perms(ActiveJoins(q[2])) :
       \E r \in {combine_call(q[1], q[2], connector, keys)} :
          /\ WithinBounds(r.q, b)
          /\ Commit(1, r.q, Call(d, [op |-> "combine", self |-> 1,
                                     connector |-> connector, error |-> r.error]))

RhsBounds == Bounds(MaxAliases, MaxFilterRefcount, MaxFilterRefcount, MaxRhsFilters, 1)
NextRhs ==
    \/ Clone
    \/ AddFilterWithin(1, RhsArgs, RhsBounds, TRUE)
    \/ AddFilterWithin(2, RhsArgs, RhsBounds, TRUE)
    \/ CombineRhs(RhsBounds, TRUE)

SpecRhs == Init /\ [][NextRhs]_vars

\* SpecTable: the joins of one Query object, and table_alias(table_name)
\* for a table of the query
TableAlias(i, b, d) ==
    \E table_name \in DOMAIN q[i].table_map :
    \E r \in {table_alias(q[i], table_name, FALSE)} :
       /\ WithinBounds(r.q, b)
       /\ Commit(i, r.q, Call(d, [op |-> "table_alias", self |-> i,
                                  table_name |-> table_name, create |-> FALSE,
                                  alias |-> r.alias, new |-> r.new]))

NextTable ==
    \/ GetInitialAlias(1, JoinBounds, TRUE)
    \/ Join(1, JoinBounds, TRUE)
    \/ TableAlias(1, JoinBounds, TRUE)

SpecTable == Init /\ [][NextTable]_vars

\* SpecLimits: one Query object is sliced again and again, and its limits
\* are cleared
ClearLimits(i, d) ==
    Commit(i, clear_limits(q[i]), Call(d, [op |-> "clear_limits", self |-> i]))

\* set_limits(low, high) with arguments that are not negative
SetLimitsAgain(i, d) ==
    \E low \in {Nothing} \cup {Some(n) : n \in 0..MaxMark},
       high \in {Nothing} \cup {Some(n) : n \in 0..MaxMark} :
        /\ set_limits(q[i], low, high).low_mark <= MaxMark
        /\ Commit(i, set_limits(q[i], low, high),
                  Call(d, [op |-> "set_limits", self |-> i, low |-> low, high |-> high]))

NextLimits ==
    \/ SetLimitsAgain(1, TRUE)
    \/ ClearLimits(1, TRUE)

SpecLimits == Init /\ [][NextLimits]_vars

\* SpecDeferred: the fields of one Query object are deferred, named for
\* immediate loading, and the deferred loading is cleared
DeferNames == SUBSET {"id", "name", "owner", "editor"}

\* add_deferred_loading(field_names), as QuerySet.defer calls it
AddDeferredLoading(i, d) ==
    \E field_names \in DeferNames \ {{}} :
       Commit(i, add_deferred_loading(q[i], field_names),
              Call(d, [op |-> "add_deferred_loading", self |-> i,
                       field_names |-> field_names]))

\* add_immediate_loading(field_names), as QuerySet.only calls it
AddImmediateLoading(i, d) ==
    \E field_names \in (DeferNames \cup {{"pk"}, {"pk", "name"}}) \ {{}} :
       Commit(i, add_immediate_loading(q[i], field_names),
              Call(d, [op |-> "add_immediate_loading", self |-> i,
                       field_names |-> field_names]))

\* clear_deferred_loading(), as QuerySet.defer(None) calls it
ClearDeferredLoading(i, d) ==
    Commit(i, clear_deferred_loading(q[i]),
           Call(d, [op |-> "clear_deferred_loading", self |-> i]))

NextDeferred ==
    \/ AddDeferredLoading(1, TRUE)
    \/ AddImmediateLoading(1, TRUE)
    \/ ClearDeferredLoading(1, TRUE)

SpecDeferred == Init /\ [][NextDeferred]_vars

\* SpecRefcount: nothing but add_filter calls on one Query object: filters
\* and exclusions over fields and foreign keys, with and without the forced
\* trim, over a name that does not resolve, and over relations to many rows
RefcountPaths ==
    { <<"name">>, <<"owner", "pk">>, <<"parent", "editor", "name">>, <<"owner", "bogus">>,
      <<"tags", "name">>, <<"owner", "owned", "name">> }
RefcountArgs ==
    RefcountPaths \X {[lookup_type |-> "exact", value |-> "5"]}
                  \X {[connector |-> AND, negate |-> FALSE, trim |-> FALSE],
                      [connector |-> AND, negate |-> TRUE, trim |-> FALSE],
                      [connector |-> AND, negate |-> TRUE, trim |-> TRUE]}
NextRefcount ==
    \/ AddFilterWithin(1, RefcountArgs, ManyBounds, TRUE)

SpecRefcount == Init /\ [][NextRefcount]_vars

\* SpecPromote: promote_joins, turn by turn, on a query of the base alias
\* and two joins of item to item whose left sides are any of the three
\* aliases: chains, a join onto itself, and cycles
PromoteAliases == <<"item", "T2", "T3">>
PromoteQuery(lhs, join_type, nullable) ==
    [NewQuery EXCEPT
       !.tables = PromoteAliases,
       !.alias_refcount = [a \in Range(PromoteAliases) |-> 1],
       !.table_map = [t \in {"item"} |-> PromoteAliases],
       !.join_map = [c \in {<<lhs[a], "item", "parent_id", "id">> : a \in {"T2", "T3"}} |->
                       Filter(PromoteAliases, {a \in {"T2", "T3"} : lhs[a] = c[1]})],
       !.alias_map = [a \in Range(PromoteAliases) |->
                        IF a = "item" THEN JoinInfo("item", a, None, None, None, None, FALSE)
                        ELSE JoinInfo("item", a, join_type[a], lhs[a], "parent_id", "id",
                                      nullable[a])]]
PromoteQueries ==
    {PromoteQuery(lhs, join_type, nullable) :
        lhs \in [{"T2", "T3"} -> Range(PromoteAliases)],
        join_type \in [{"T2", "T3"} -> {INNER, LOUTER}],
        nullable \in [{"T2", "T3"} -> BOOLEAN]}

InitPromote ==
    /\ \E Q \in PromoteQueries : q = [i \in QueryIds |-> IF i = 1 THEN Q ELSE NewQuery]
    /\ shared = {}
    /\ call = NoCall

\* promote_joins(aliases, unconditional) is called: "aliases = list(aliases)"
PromoteCalled ==
    /\ call.op = "__init__"
    /\ \E aliases \in AliasLists(q[1], MaxPromote), unconditional \in BOOLEAN :
          call' = [op |-> "promote_joins", self |-> 1, pc |-> "while",
                   given |-> aliases, aliases |-> aliases,
                   unconditional |-> unconditional, before |-> q[1],
                   changes |-> [a \in Range(PromoteAliases) |-> 0]]
    /\ UNCHANGED <<q, shared>>

\* One turn of the loop
PromoteTurn ==
    /\ call.op = "promote_joins"
    /\ call.pc = "while"
    /\ call.aliases # << >>
    /\ \E r \in {promote_joins_turn(q[1], call.aliases, call.unconditional)} :
          /\ q' = [q EXCEPT ![1] = r.q]
          /\ call' = [call EXCEPT
                        !.aliases = r.aliases,
                        !.changes[Head(call.aliases)] = IF r.changed THEN @ + 1 ELSE @]
    /\ UNCHANGED shared

\* The list is empty: the call returns
PromoteReturns ==
    /\ call.op = "promote_joins"
    /\ call.pc = "while"
    /\ call.aliases = << >>
    /\ call' = [call EXCEPT !.pc = "done"]
    /\ UNCHANGED <<q, shared>>

NextPromote ==
    \/ PromoteCalled
    \/ PromoteTurn
    \/ PromoteReturns

\* A call that has started runs on: the loop is no step of another thread
SpecPromote ==
    InitPromote /\ [][NextPromote]_vars /\ WF_vars(PromoteTurn) /\ WF_vars(PromoteReturns)
----------------------------------------------------------------------------
(* Properties *)

JoinType(Q, alias) == Q.alias_map[alias].join_type
LhsAlias(Q, alias) == Q.alias_map[alias].lhs_alias

\* The aliases below 'alias': those that reach it through their lhs_alias links
Descendants(Q, alias) ==
    {d \in Aliases(Q) \ {alias} : alias \in Range(ChainTo(Q, d))}

\* The aliases of rhs that are joins with a non-zero refcount
ActiveRhs(rhs) ==
    {a \in Aliases(rhs) : LhsAlias(rhs, a) # None /\ rhs.alias_refcount[a] # 0}

\* C1: after any sequence of join(), promote_joins(), trim_joins(),
\* bump_prefix()/change_aliases() and combine() calls, no alias of alias_map
\* has join type INNER while its left alias has join type LOUTER.
C1_NoInnerUnderLouter ==
    \A a \in Aliases(q[1]) :
        (LhsAlias(q[1], a) # None /\ JoinType(q[1], a) = INNER)
            => JoinType(q[1], LhsAlias(q[1], a)) # LOUTER

\* A relabelled query holds a join that cannot be NULL under a LOUTER join
C1_Witness ==
    /\ call.op = "bump_prefix"
    /\ \E a \in Aliases(q[1]) :
          /\ LhsAlias(q[1], a) # None
          /\ JoinType(q[1], LhsAlias(q[1], a)) = LOUTER
          /\ JoinType(q[1], a) = LOUTER
          /\ ~q[1].alias_map[a].nullable

\* C2: after obj = q.clone(), a call that changes one of the two objects
\* leaves every part of the other one as it was: alias_map, alias_refcount,
\* table_map with its per-table alias lists, join_map, tables, select, where.
C2_CloneIsIndependent ==
    [][\A j \in QueryIds : (call'.op # "clone" /\ j # call'.self) => q'[j] = q[j]]_vars

\* C3: after self.combine(rhs, connector) every active join of rhs is mapped
\* by change_map to an alias of self with the same table and join columns
\* whose left alias is the image of the rhs alias's left alias (the base
\* alias standing for the base alias); no two active joins of rhs are mapped
\* to the same alias; every alias of self's new select list is in alias_map.
C3_CombineStep ==
    call'.op = "combine" =>
        LET Q == q'[1]
            rhs == call'.rhs
            change_map == call'.change_map
            Image(a) == IF a = rhs.tables[1] THEN Q.tables[1] ELSE change_map[a]
        IN /\ \A a \in ActiveRhs(rhs) :
                /\ a \in DOMAIN change_map
                /\ change_map[a] \in Aliases(Q)
                /\ Q.alias_map[change_map[a]].table_name = rhs.alias_map[a].table_name
                /\ Q.alias_map[change_map[a]].lhs_join_col = rhs.alias_map[a].lhs_join_col
                /\ Q.alias_map[change_map[a]].rhs_join_col = rhs.alias_map[a].rhs_join_col
                /\ LhsAlias(Q, change_map[a]) = Image(LhsAlias(rhs, a))
           /\ \A a, b \in ActiveRhs(rhs) : a # b => change_map[a] # change_map[b]
           /\ \A n \in 1..Len(Q.select) : Q.select[n][1] \in Aliases(Q)

C4_CombineOrStep ==
    (call'.op = "combine" /\ call'.connector = OR) =>
        LET before == q[1]
            Q == q'[1]
            images == {call'.change_map[a] : a \in ActiveRhs(call'.rhs)}
            one_side == (Aliases(before) \ images) \cup (Aliases(Q) \ Aliases(before))
        IN \A a \in one_side :
              (LhsAlias(Q, a) # None /\ Q.alias_refcount[a] # 0) => JoinType(Q, a) = LOUTER

C4_OneSidedJoinsAreOuter == [][C4_CombineOrStep]_vars

\* The relation a join goes over
RelationOf(Q, a) ==
    <<Q.alias_map[a].table_name, Q.alias_map[a].lhs_join_col, Q.alias_map[a].rhs_join_col>>

\* Q holds exactly one active join, from the base table over a nullable relation
OneNullableJoin(Q) ==
    /\ Q.tables # << >>
    /\ Cardinality(ActiveRhs(Q)) = 1
    /\ \A a \in ActiveRhs(Q) : LhsAlias(Q, a) = Q.tables[1] /\ Q.alias_map[a].nullable

\* C5: when A and B each hold exactly one active join, from the base table
\* over different nullable relations, A.combine(B, OR) leaves both joins in
\* A's alias_map with join type LOUTER.
C5_CombineOrStep ==
    (/\ call'.op = "combine" /\ call'.connector = OR
     /\ OneNullableJoin(q[1]) /\ OneNullableJoin(call'.rhs)
     /\ \A a \in ActiveRhs(q[1]), b \in ActiveRhs(call'.rhs) :
           RelationOf(q[1], a) # RelationOf(call'.rhs, b)) =>
        /\ \A a \in ActiveRhs(q[1]) :
              a \in Aliases(q'[1]) /\ JoinType(q'[1], a) = LOUTER
        /\ \A b \in ActiveRhs(call'.rhs) :
              \E a \in Aliases(q'[1]) :
                 /\ RelationOf(q'[1], a) = RelationOf(call'.rhs, b)
                 /\ JoinType(q'[1], a) = LOUTER

C5_BothJoinsAreOuter == [][C5_CombineOrStep]_vars

\* The aliases that join_map holds for the connection and the reuse policy admits
Admitted(Q, connection, reuse) ==
    {a \in Range(Get(Q.join_map, connection, << >>)) :
        \/ reuse = REUSE_ALL
        \/ reuse.kind = "set" /\ a \in reuse.aliases}

\* C6: join(connection, reuse) returns an alias that exists already exactly
\* when join_map holds for the connection an alias the reuse policy admits
\* (REUSE_ALL any, a set its members, None none); it then creates no alias
\* and raises the refcount of the alias it returns by one; of two successive
\* REUSE_ALL joins over one connection the second returns the alias of the
\* first and creates none.
C6_JoinStep ==
    call'.op = "join" =>
        LET Q == q[1]
            Qn == q'[1]
            c == call'
            admitted == Admitted(Q, c.connection, c.reuse)
        IN /\ (c.alias \in Aliases(Q)) <=> (admitted # {})
           /\ (admitted # {}) =>
                 /\ c.alias \in admitted
                 /\ Aliases(Qn) = Aliases(Q)
                 /\ Qn.tables = Q.tables
                 /\ Qn.alias_refcount[c.alias] = Q.alias_refcount[c.alias] + 1
           /\ (/\ call.op = "join" /\ call.connection = c.connection
               /\ call.reuse = REUSE_ALL /\ c.reuse = REUSE_ALL) =>
                 /\ c.alias = call.alias
                 /\ Aliases(Qn) = Aliases(Q)

C6_JoinReuse == [][C6_JoinStep]_vars

\* A join reused through a set that holds it, the second reference of its alias
C6_Witness ==
    /\ call.op = "join"
    /\ call.reuse.kind = "set"
    /\ ~call.new
    /\ q[1].alias_refcount[call.alias] = 2

\* A filter over one forward foreign key whose join trim_joins met as INNER
OneInnerRelation(c) ==
    /\ c.op = "add_filter"
    /\ c.error = None
    /\ ~c.trim
    /\ Len(c.joins) = 2
    /\ c.join_types[2] = INNER

\* The column the filter compares
ComparedColumn(c) ==
    LET name == c.names[Len(c.names)] IN IF name = "pk" THEN "id" ELSE name

\* The constraint that the call c added to the WHERE tree
AddedLeaf(c) == q'[1].where[Len(q[1].where) + 1]

\* C7 as it is worded: for a filter over one forward foreign key whose join
\* is INNER, a comparison of the related table's join column is put on the
\* local foreign-key column of the left alias and the joined alias is left
\* with refcount 0; a comparison of another column stays on the joined
\* alias, whose refcount is at least 1.
C7_WordedStep ==
    OneInnerRelation(call') =>
        LET joined == call'.joins[2]
            info == q'[1].alias_map[joined]
        IN IF ComparedColumn(call') = info.rhs_join_col
           THEN /\ AddedLeaf(call').alias = info.lhs_alias
                /\ AddedLeaf(call').col = info.lhs_join_col
                /\ q'[1].alias_refcount[joined] = 0
           ELSE /\ AddedLeaf(call').alias = joined
                /\ AddedLeaf(call').col = ComparedColumn(call')
                /\ q'[1].alias_refcount[joined] >= 1

C7_TrimAsWorded == [][C7_WordedStep]_vars

\* C7: for a filter over one forward foreign key whose join is INNER when
\* trim_joins runs, a comparison of the related table's join column, other
\* than isnull=False, is put on the local foreign-key column of the left
\* alias and the joined alias keeps the refcount it had before the filter
\* (0 when the filter created it); an isnull=False lookup on that column, and
\* a comparison of another column, stay on the joined alias, whose refcount
\* is at least 1.
C7_TrimStep ==
    OneInnerRelation(call') =>
        LET joined == call'.joins[2]
            info == q'[1].alias_map[joined]
            nonnull == call'.lookup_type = "isnull" /\ call'.value = "False"
        IN IF ComparedColumn(call') = info.rhs_join_col /\ ~nonnull
           THEN /\ AddedLeaf(call').alias = info.lhs_alias
                /\ AddedLeaf(call').col = info.lhs_join_col
                /\ q'[1].alias_refcount[joined] = Get(q[1].alias_refcount, joined, 0)
           ELSE /\ AddedLeaf(call').alias = joined
                /\ AddedLeaf(call').col = ComparedColumn(call')
                /\ q'[1].alias_refcount[joined] >= 1

C7_Trim == [][C7_TrimStep]_vars

\* A filter on related__pk put on the local column while an earlier filter
\* keeps the join referenced
C7_Witness ==
    /\ call.op = "add_filter"
    /\ call.names = <<"owner", "pk">>
    /\ call.error = None
    /\ call.alias = "item"
    /\ call.col = "owner_id"
    /\ call.join_types = <<None, INNER>>
    /\ q[1].alias_refcount[call.joins[2]] = 1

\* C8: an alias that join() creates has join type None when the connection
\* has no left alias, LOUTER when promote or outer_if_first is true or the
\* left alias is LOUTER, INNER otherwise; its refcount is 1 and it is
\* appended to join_map[connection].
C8_JoinStep ==
    /\ (call'.op = "join" /\ call'.new) =>
          LET Q == q[1]
              Qn == q'[1]
              c == call'
              lhs == c.connection[1]
              expected == IF lhs = None THEN None
                          ELSE IF c.promote \/ c.outer_if_first \/ JoinType(Q, lhs) = LOUTER
                          THEN LOUTER
                          ELSE INNER
          IN /\ c.alias \notin Aliases(Q)
             /\ JoinType(Qn, c.alias) = expected
             /\ Qn.alias_refcount[c.alias] = 1
             /\ Qn.join_map[c.connection] = Append(Get(Q.join_map, c.connection, << >>), c.alias)
    /\ (call'.op = "get_initial_alias" /\ q[1].tables = << >>) =>
          /\ JoinType(q'[1], call'.alias) = None
          /\ q'[1].alias_refcount[call'.alias] = 1
          /\ q'[1].join_map[<<None, BaseTable, None, None>>] = <<call'.alias>>

C8_NewAlias == [][C8_JoinStep]_vars

\* A join created LOUTER for no other reason than its left alias being LOUTER
C8_Witness ==
    /\ call.op = "join"
    /\ call.new
    /\ ~call.promote
    /\ ~call.outer_if_first
    /\ JoinType(q[1], call.alias) = LOUTER

\* C9: promote_joins(aliases, unconditional) makes a listed INNER join
\* LOUTER exactly when unconditional is true, or the join is nullable, or
\* its left alias is LOUTER (be it from before the call or through it); and
\* every alias below an alias the call promoted is LOUTER when it returns.
C9_PromoteStep ==
    call'.op = "promote_joins" =>
        LET Q == q[1]
            Qn == q'[1]
            c == call'
            LeftLouter(a) == JoinType(Qn, LhsAlias(Qn, a)) = LOUTER
        IN /\ \A a \in Range(c.aliases) :
                (LhsAlias(Q, a) # None /\ JoinType(Q, a) = INNER) =>
                    ((JoinType(Qn, a) = LOUTER)
                        <=> (c.unconditional \/ Q.alias_map[a].nullable \/ LeftLouter(a)))
           /\ \A a \in Aliases(Q) :
                (JoinType(Q, a) # JoinType(Qn, a)) =>
                    \A d \in Descendants(Qn, a) : JoinType(Qn, d) = LOUTER

C9_Promotion == [][C9_PromoteStep]_vars

\* A conditional call that promoted a listed join and one below it that
\* was not listed
C9_Witness ==
    /\ call.op = "promote_joins"
    /\ ~call.unconditional
    /\ Cardinality(call.promoted) = 2
    /\ \E d \in call.promoted : d \notin Range(call.aliases)

\* C10: the base alias has join type None in every reachable state, whatever
\* join(), promote_joins(), add_filter() and combine() calls were made, and
\* the assertion of add_filter's negate branch does not fail.
C10_BaseAliasIsNotJoined ==
    /\ \A a \in Aliases(q[1]) : LhsAlias(q[1], a) = None => JoinType(q[1], a) = None
    /\ q[1].tables # << >> => JoinType(q[1], q[1].tables[1]) = None
    /\ call.op = "add_filter" => call.error # "AssertionError"

\* A negated filter went through its assertion: its join list holds a LOUTER join
C10_Witness ==
    /\ call.op = "add_filter"
    /\ call.negate
    /\ call.lookup_type # "isnull"
    /\ call.value # None
    /\ call.error = None
    /\ Len(call.join_list) > 1
    /\ \E n \in 1..Len(call.join_list) : JoinType(q[1], call.join_list[n]) = LOUTER

\* C11: trim_joins without forced trim removes an alias from the tail of the
\* join list only if that alias is INNER, nonnull_check is false and its
\* rhs_join_col is the column compared when the loop reaches it (the target
\* column for the last alias, the lhs_join_col of the alias removed before it
\* otherwise); the refcount of each removed alias goes down by exactly one
\* and no other refcount changes; the first element of the list stays; no
\* join type changes and no alias_map entry goes; the alias returned is the
\* last element of the join list returned.
C11_TrimStep ==
    (call'.op = "trim_joins" /\ ~call'.trim) =>
        LET Q == q[1]
            c == call'
            kept == Len(c.trimmed)
            Removed == (kept + 1)..Len(c.join_list)
            Compared(n) == IF n = Len(c.join_list) THEN c.target
                           ELSE Q.alias_map[c.join_list[n + 1]].lhs_join_col
        IN /\ kept >= 1
           /\ c.trimmed = SubSeq(c.join_list, 1, kept)
           /\ \A n \in Removed :
                /\ JoinType(Q, c.join_list[n]) = INNER
                /\ ~c.nonnull_check
                /\ Q.alias_map[c.join_list[n]].rhs_join_col = Compared(n)
           /\ Aliases(q'[1]) = Aliases(Q)
           /\ \A a \in Aliases(Q) :
                q'[1].alias_refcount[a] =
                    Q.alias_refcount[a] - (IF a \in {c.join_list[n] : n \in Removed}
                                           THEN 1 ELSE 0)
           /\ q'[1].alias_map = Q.alias_map
           /\ c.alias = c.trimmed[kept]

C11_TrimRemovesInnerTail == [][C11_TrimStep]_vars

\* trim_joins without forced trim took the last join off a list of three and
\* left the join before it
C11_Witness ==
    /\ call.op = "trim_joins"
    /\ ~call.trim
    /\ Len(call.join_list) = 3
    /\ call.trimmed = SubSeq(call.join_list, 1, 2)
    /\ q[1].alias_refcount[call.join_list[3]] = 0

\* C12: self.combine(rhs, connector) fails when self.model differs from
\* rhs.model, when self.distinct differs from rhs.distinct, when the distinct
\* fields differ, or when self already has an offset or a limit; in each of
\* these failures self is left with every attribute as it was.
C12_CombineStep ==
    (/\ call'.op = "combine"
     /\ \/ q[1].model # call'.rhs.model
        \/ q[1].distinct # call'.rhs.distinct
        \/ q[1].distinct_fields # call'.rhs.distinct_fields
        \/ q[1].low_mark # 0
        \/ q[1].high_mark # Nothing)
        => (call'.error # None /\ q'[1] = q[1])

C12_CombineAsserts == [][C12_CombineStep]_vars

\* combine() failed on a query that has joins and a filter, for distinct
\* fields that differ while distinct is set on both sides
C12_Witness ==
    /\ call.op = "combine"
    /\ call.error = "AssertionError"
    /\ q[1].model = call.rhs.model
    /\ can_filter(q[1])
    /\ q[1].distinct = call.rhs.distinct
    /\ q[1].distinct_fields # call.rhs.distinct_fields
    /\ Len(q[1].tables) > 1
    /\ q[1].where # << >>

\* C13: a combine() call can fail after it changed self.  A call that fails
\* with ValueError has connector OR and extra select entries on both sides,
\* and it fails after the joins of rhs were added: every active join of rhs
\* has its image in self's alias_map and tables with a refcount higher than
\* before the call, and self after the failed call differs from self before.
C13_CombineStep ==
    (call'.op = "combine" /\ call'.error = "ValueError") =>
        LET rhs == call'.rhs
            change_map == call'.change_map
        IN /\ call'.connector = OR
           /\ DOMAIN q[1].extra # {}
           /\ DOMAIN rhs.extra # {}
           /\ q'[1] # q[1]
           /\ \A a \in ActiveRhs(rhs) :
                /\ a \in DOMAIN change_map
                /\ change_map[a] \in Aliases(q'[1])
                /\ change_map[a] \in Range(q'[1].tables)
                /\ q'[1].alias_refcount[change_map[a]]
                       > Get(q[1].alias_refcount, change_map[a], 0)

C13_CombineFailsAfterJoins == [][C13_CombineStep]_vars

\* A combine() that failed with ValueError left self with an alias it did not
\* have before the call
C13_Witness ==
    /\ call.op = "combine"
    /\ call.error = "ValueError"
    /\ \E a \in Aliases(q[1]) : a \notin Aliases(call.before)
    /\ Len(q[1].tables) > Len(call.before.tables)

\* C14, as worded: bump_prefix() fails only when the 26 letters are used up,
\* so on a Query created with the default prefix 25 successive calls succeed:
\* a call on a query relabelled fewer than 25 times does not fail.
C14_WordedStep ==
    (call'.op = "bump_prefix" /\ Bumps(q[1]) < 25) => call'.error = None

C14_TwentyFiveBumps == [][C14_WordedStep]_vars

\* C14, amended: bump_prefix() fails exactly when alias_prefix is 'Z', and it
\* leaves the query as it was then; otherwise it advances alias_prefix to the
\* next letter.  From the default prefix 'T' a query is relabelled six times
\* at most: the seventh successive call fails.
C14_BumpStep ==
    call'.op = "bump_prefix" =>
        IF q[1].alias_prefix = "Z"
        THEN /\ call'.error = "AssertionError"
             /\ q'[1] = q[1]
             /\ Bumps(q[1]) = 6
        ELSE /\ call'.error = None
             /\ ord(q'[1].alias_prefix) = ord(q[1].alias_prefix) + 1
             /\ Bumps(q'[1]) = Bumps(q[1]) + 1
             /\ Bumps(q'[1]) <= 6

C14_SixBumps == [][C14_BumpStep]_vars

\* The seventh bump_prefix() call failed on a query with a join
C14_Witness ==
    /\ call.op = "bump_prefix"
    /\ call.error = "AssertionError"
    /\ q[1].alias_prefix = "Z"
    /\ Bumps(q[1]) = 6
    /\ Len(q[1].tables) > 1

\* No query attribute of Q names the alias k
Absent(Q, k) ==
    /\ k \notin DOMAIN Q.alias_map
    /\ \A a \in DOMAIN Q.alias_map :
          Q.alias_map[a].rhs_alias # k /\ Q.alias_map[a].lhs_alias # k
    /\ k \notin DOMAIN Q.alias_refcount
    /\ k \notin Range(Q.tables)
    /\ \A t \in DOMAIN Q.table_map : k \notin Range(Q.table_map[t])
    /\ \A ident \in DOMAIN Q.join_map :
          ident[1] # k /\ k \notin Range(Q.join_map[ident])
    /\ \A key \in DOMAIN Q.included_inherited_models :
          Q.included_inherited_models[key] # k

\* The alias 'old' of Q is the alias 'new' of Qn, with the refcount, table,
\* join columns, join type and nullable flag it had
Kept(Q, Qn, old, new) ==
    /\ new \in DOMAIN Qn.alias_map
    /\ new \in DOMAIN Qn.alias_refcount
    /\ Qn.alias_refcount[new] = Q.alias_refcount[old]
    /\ Qn.alias_map[new].rhs_alias = new
    /\ Qn.alias_map[new].table_name = Q.alias_map[old].table_name
    /\ Qn.alias_map[new].lhs_join_col = Q.alias_map[old].lhs_join_col
    /\ Qn.alias_map[new].rhs_join_col = Q.alias_map[old].rhs_join_col
    /\ Qn.alias_map[new].join_type = Q.alias_map[old].join_type
    /\ Qn.alias_map[new].nullable = Q.alias_map[old].nullable
    /\ new \in Range(Qn.table_map[Q.alias_map[old].table_name])

\* Qn is Q with its aliases renamed as change_map says
Renamed(Q, Qn, change_map) ==
    /\ \A k \in DOMAIN change_map : Absent(Qn, k) /\ Kept(Q, Qn, k, change_map[k])
    /\ \A a \in Aliases(Q) \ DOMAIN change_map : Kept(Q, Qn, a, a)
    /\ Aliases(Qn) = {Relabel(change_map, a) : a \in Aliases(Q)}

\* The renaming bump_prefix did: the alias at a position of tables before the
\* call, if not excepted, became the alias at that position after it
BumpChange(Q, Qn, exceptions) ==
    [a \in Range(Q.tables) \ exceptions |->
        Qn.tables[CHOOSE n \in 1..Len(Q.tables) : Q.tables[n] = a]]

\* C15: change_aliases(change_map) rejects a change_map whose keys and values
\* intersect, and leaves the query as it was.  Otherwise (the values being
\* new aliases, one for each key) no key of change_map occurs in alias_map
\* (as key, rhs_alias or lhs_alias), alias_refcount, tables, the table_map
\* lists, join_map (left alias of a key, member of an alias tuple) or
\* included_inherited_models when it returns; every renamed alias keeps its
\* refcount, table, join columns, join type and nullable flag; the aliases
\* not in change_map keep theirs and their names.  The same holds after
\* bump_prefix(exceptions), every alias not in exceptions being renamed.
C15_RelabelStep ==
    /\ call'.op = "change_aliases" =>
          IF DOMAIN call'.change_map \cap ChangeMapValues(call'.change_map) # {}
          THEN call'.error = "AssertionError" /\ q'[1] = q[1]
          ELSE call'.error = None /\ Renamed(q[1], q'[1], call'.change_map)
    /\ (call'.op = "bump_prefix" /\ call'.error = None) =>
          /\ Renamed(q[1], q'[1], BumpChange(q[1], q'[1], call'.exceptions))
          /\ \A a \in Range(q[1].tables) \ call'.exceptions :
                BumpChange(q[1], q'[1], call'.exceptions)[a] # a

C16_AliasStep ==
    call'.op \in {"join", "get_initial_alias"} =>
        \A a \in Aliases(q'[1]) \ Aliases(q[1]) :
            LET table == q'[1].alias_map[a].table_name IN
            IF \A b \in Aliases(q[1]) : q[1].alias_map[b].table_name # table
            THEN a = table
            ELSE a \in {q[1].alias_prefix \o ToString(n) :
                            n \in 1..(Cardinality(Aliases(q[1])) + 1)}

C16_AliasNames == [][C16_AliasStep]_vars

\* A relabelled query, whose base alias is no table name any more, was
\* joined to its own table again: the new alias has the new prefix
C16_Witness ==
    /\ call.op = "join"
    /\ call.new
    /\ q[1].alias_prefix # alias_prefix
    /\ q[1].alias_map[call.alias].table_name = BaseTable
    /\ call.alias = q[1].alias_prefix \o "2"
    /\ q[1].tables[1] # BaseTable

\* The number of positions of the list s that hold x
Count(s, x) == Cardinality({n \in 1..Len(s) : s[n] = x})

\* C17: in every state reached by join(), get_initial_alias(), trim_joins(),
\* promote_joins(), bump_prefix() and combine(), the alias bookkeeping is consistent: the
\* entries of tables are pairwise distinct, the key sets of alias_map and
\* alias_refcount both are the set of entries of tables, every alias is in
\* the table_map list of its table, once, and in no other, every alias of a
\* join_map tuple is a key of alias_map, and every lhs_alias that is not None
\* is a key of alias_map.
C17_ConsistentAliases ==
    LET Q == q[1] IN
    /\ \A n, m \in 1..Len(Q.tables) : n # m => Q.tables[n] # Q.tables[m]
    /\ DOMAIN Q.alias_map = Range(Q.tables)
    /\ DOMAIN Q.alias_refcount = Range(Q.tables)
    /\ \A a \in DOMAIN Q.alias_map :
          /\ Q.alias_map[a].table_name \in DOMAIN Q.table_map
          /\ \A t \in DOMAIN Q.table_map :
                Count(Q.table_map[t], a) = (IF t = Q.alias_map[a].table_name THEN 1 ELSE 0)
          /\ Q.alias_map[a].lhs_alias # None => Q.alias_map[a].lhs_alias \in DOMAIN Q.alias_map
    /\ \A t \in DOMAIN Q.table_map : Range(Q.table_map[t]) \subseteq DOMAIN Q.alias_map
    /\ \A ident \in DOMAIN Q.join_map : Range(Q.join_map[ident]) \subseteq DOMAIN Q.alias_map

\* What promote_joins([alias]) leaves of a join that is nullable or whose
\* left alias is LOUTER: it is LOUTER
Promoted(Q, alias) ==
    LET info == Q.alias_map[alias] IN
    \/ info.join_type = LOUTER
    \/ info.join_type = None
    \/ /\ ~info.nullable
       /\ Q.alias_map[info.lhs_alias].join_type # LOUTER

\* The arm holds a reference to the alias: it left its refcount higher
Touches(arm, alias) ==
    Get(arm.after.alias_refcount, alias, 0) > Get(arm.before.alias_refcount, alias, 0)

\* The nullable joins that one arm only of the node touches
OneArmJoins(node) ==
    LET Q == node.arms[Len(node.arms)].after IN
    { alias \in DOMAIN Q.alias_map :
        /\ Q.alias_map[alias].nullable
        /\ Cardinality({n \in 1..Len(node.arms) : Touches(node.arms[n], alias)}) = 1 }

\* The disjunctions add_q has finished: the nodes under OR of two arms
Disjunctions(nodes) ==
    { n \in 1..Len(nodes) : nodes[n].connector = OR /\ Len(nodes[n].arms) > 1 }

\* C18: after every child that add_q adds under OR, each alias of
\* used_aliases that did not exist before the child, or whose refcount the
\* child left unchanged, has been given to promote_joins (it is LOUTER if it
\* is nullable or its left alias is LOUTER), so a nullable join that one arm
\* only of a disjunction touches, the first arm included, is LOUTER when
\* add_q returns.
C18_PromoteStep ==
    call'.op = "add_q" =>
        \A n \in 1..Len(call'.nodes) :
            \A k \in 1..Len(call'.nodes[n].arms) :
                LET arm == call'.nodes[n].arms[k] IN
                arm.connector = OR =>
                    \A alias \in arm.filtered.used_aliases :
                        (\/ alias \notin DOMAIN arm.before.alias_refcount
                         \/ arm.filtered.alias_refcount[alias]
                              = arm.before.alias_refcount[alias])
                        => Promoted(arm.after, alias)
C18_OuterStep ==
    call'.op = "add_q" =>
        \A n \in Disjunctions(call'.nodes) :
            \A alias \in OneArmJoins(call'.nodes[n]) :
                LET arms == call'.nodes[n].arms
                IN arms[Len(arms)].after.alias_map[alias].join_type = LOUTER
C18_OneArmJoinsAreOuter == [][C18_PromoteStep /\ C18_OuterStep]_vars

\* The names of a path that are relations to many rows
ManyNames == {r.name : r \in ManyRelations}

\* C19: when setup_joins, called by add_filter with allow_many=False, raises
\* MultiJoin, its level is the position of the first name of the path that
\* is a many-to-many or reverse relation; no join was made for that name
\* (the aliases the call made are in the join list, which has one alias for
\* each earlier name); and every alias of the join list has lost the
\* reference it was given, so every alias that existed before add_filter
\* started has the refcount it had then.
C19_MultiJoinStep ==
    "multi" \in DOMAIN call' /\ call'.multi # Nothing =>
        LET multi == call'.multi[1]
            before == call'.before
            names == call'.names
        IN /\ call'.negate /\ ~call'.trim
           /\ multi.level \in 1..Len(names)
           /\ names[multi.level] \in ManyNames
           /\ \A n \in 1..(multi.level - 1) : names[n] \notin ManyNames
           /\ Len(multi.joins) = multi.level
           /\ DOMAIN multi.q.alias_map \ DOMAIN before.alias_map \subseteq Range(multi.joins)
           /\ \A alias \in Range(multi.joins) :
                 multi.q.alias_refcount[alias] = Get(before.alias_refcount, alias, 0)
           /\ \A alias \in DOMAIN before.alias_refcount :
                 multi.q.alias_refcount[alias] = before.alias_refcount[alias]
C19_MultiJoinRestoresRefcounts == [][C19_MultiJoinStep]_vars

\* An exclusion over owner__owned on a query that holds a reference to the
\* join of owner: setup_joins took a second one and gave it back
C19_Witness ==
    /\ "multi" \in DOMAIN call
    /\ call.multi # Nothing
    /\ call.multi[1].level = 2
    /\ \E alias \in Range(call.multi[1].joins) :
          /\ alias # call.multi[1].joins[1]
          /\ Get(call.before.alias_refcount, alias, 0) > 0

\* The aliases of Q for the junction table and the related table of item.tags
TagAliases(Q) ==
    {alias \in DOMAIN Q.alias_map : Q.alias_map[alias].table_name \in {"item_tags", "tag"}}

\* C20: after add_filter with negate=True, trim=False on a path whose first
\* name is the many-to-many field tags, the aliases the call made for the
\* junction table and the related table are at refcount 0 and those the
\* query had keep their refcount, so that the call leaves no active alias
\* for these tables; and the WHERE tree has gained a leaf 'in' on a column of
\* the base alias whose value is another Query, with the next alias prefix
\* and aliases of its own.
C20_ExcludeStep ==
    /\ "multi" \in DOMAIN call'
    /\ call'.negate /\ ~call'.trim
    /\ call'.names[1] = "tags"
    /\ call'.error = None
    => /\ call'.multi # Nothing
       /\ \A alias \in TagAliases(q'[1]) :
             q'[1].alias_refcount[alias] = Get(call'.before.alias_refcount, alias, 0)
       /\ \E n \in (Len(call'.before.where) + 1)..Len(q'[1].where) :
             LET leaf == q'[1].where[n] IN
             /\ leaf.kind = "leaf"
             /\ leaf.lookup_type = "in"
             /\ leaf.alias = q'[1].tables[1]
             /\ leaf.col = "id"
             /\ "query" \in DOMAIN leaf
             /\ leaf.query.alias_prefix = chr(ord(alias_prefix) + 1)
             /\ leaf.query.tables # << >>
             /\ Range(leaf.query.tables) \cap DOMAIN q'[1].alias_map = {}
----------------------------------------------------------------------------
(* Claims C21 to C30 *)

\* The entries a call appended to the WHERE tree
Added == SubSeq(q'[1].where, Len(q[1].where) + 1, Len(q'[1].where))

\* C21: add_filter() with value None reads the default lookup 'exact' as
\* 'isnull' with value True, and raises an error for every other lookup type
\* before any alias is referenced or created: the Query is unchanged.
C21_NoneStep ==
    (call'.op = "add_filter" /\ call'.value = None) =>
        IF call'.lookup_type = "exact"
        THEN call'.error = None =>
                /\ Len(Added) >= 1
                /\ Added[1].kind = "leaf"
                /\ Added[1].lookup_type = "isnull" /\ Added[1].value = "True"
                /\ Added[1].alias = call'.alias /\ Added[1].col = call'.col
        ELSE call'.error = "ValueError" /\ q' = q
C21_NoneValue == [][C21_NoneStep]_vars

C21_Witness ==
    /\ call.op = "add_filter" /\ call.value = None /\ call.lookup_type = "gt"
    /\ call.error = "ValueError"
    /\ q[1].tables # << >>

\* The field a path ends at is nullable: the foreign keys item.parent and
\* item.editor
NullablePath(names) == names[Len(names)] \in {"parent", "editor"}

\* An exclusion that compares with a value: negate=True and a lookup that is
\* not 'isnull', also after the rule for None
ComparingExclude(c) ==
    /\ c.op = "add_filter" /\ c.error = None
    /\ c.negate /\ c.lookup_type # "isnull" /\ c.value # None

\* C22: add_filter() with negate=True and a lookup other than 'isnull' on a
\* nullable field adds, besides the comparison, an 'isnull False' comparison
\* on the same alias and column, connected with AND; on a non-nullable field
\* reached without any join it adds the comparison only.
C22_GuardStep ==
    ComparingExclude(call') =>
        /\ NullablePath(call'.names) =>
              \E n \in 2..Len(Added) :
                  Added[n] = Leaf(Added[1].alias, Added[1].col, "isnull", "False", AND, FALSE)
        /\ call'.names = <<"name">> => Len(Added) = 1
C22_NullGuard == [][C22_GuardStep]_vars

\* The path of the call names an aggregate alias of the query
OnAggregateAlias(c) == c.names[1] \in DOMAIN q[1].aggregates

\* The cases in which the comparison is to go to the HAVING tree
ToHaving(c) ==
    \/ OnAggregateAlias(c)
    \/ c.value = AggregateExpression
    \/ c.force_having

\* The call appended the comparison to the HAVING tree and none to WHERE
InHaving(c) ==
    /\ Len(q'[1].having) = Len(q[1].having) + 1
    /\ SubSeq(q'[1].having, 1, Len(q[1].having)) = q[1].having
    /\ LET entry == q'[1].having[Len(q'[1].having)]
       IN /\ entry.lookup_type = c.lookup_type /\ entry.value = c.value
          /\ entry.connector = c.connector
    /\ \A n \in 1..Len(Added) : Added[n].lookup_type = "isnull"

\* The call appended the comparison to the WHERE tree and nothing to HAVING
InWhere(c) ==
    /\ q'[1].having = q[1].having
    /\ Len(Added) >= 1
    /\ Added[1] = Leaf(c.alias, c.col, c.lookup_type, c.value, c.connector, FALSE)

\* The call created no join and changed no alias refcount
NoAliasTouched ==
    /\ q'[1].alias_refcount = q[1].alias_refcount
    /\ q'[1].alias_map = q[1].alias_map
    /\ q'[1].tables = q[1].tables
    /\ q'[1].table_map = q[1].table_map
    /\ q'[1].join_map = q[1].join_map

\* C23: add_filter() puts the comparison into the HAVING tree when the path
\* names an aggregate alias of the query, when the value contains an
\* aggregate expression or when force_having is set, and into the WHERE tree
\* in every other case; a filter on an aggregate alias creates no join and
\* changes no alias refcount.
C23_HavingStep ==
    (call'.op = "add_filter" /\ "force_having" \in DOMAIN call') =>
        /\ ToHaving(call') => InHaving(call')
        /\ ~ToHaving(call') => InWhere(call')
        /\ OnAggregateAlias(call') => NoAliasTouched
C23_HavingOrWhere == [][C23_HavingStep]_vars

\* The positions of the rows a query with the limits of Q returns of n rows
Positions(Q, n) ==
    {i \in 0..(n - 1) : Q.low_mark <= i /\ (Q.high_mark = Nothing \/ i < Q.high_mark[1])}

\* C24: for a query with offset low_mark and upper bound high_mark whose
\* unsliced row count is n, get_count() returns max(0, n - low_mark), capped
\* at high_mark - low_mark when high_mark is set; the result is never negative
\* and is the number of positions i with low_mark <= i < min(n, high_mark).
C24_CountStep ==
    (call'.op = "get_count" /\ call'.error = None) =>
        LET n == call'.rows
            uncapped == IF n - q[1].low_mark > 0 THEN n - q[1].low_mark ELSE 0
            cap == q[1].high_mark[1] - q[1].low_mark
        IN /\ call'.number = IF q[1].high_mark = Nothing \/ uncapped <= cap
                             THEN uncapped ELSE cap
           /\ call'.number >= 0
           /\ call'.number = Cardinality(Positions(q[1], n))
C24_CountLimits == [][C24_CountStep]_vars

C24_Witness ==
    /\ call.op = "get_count" /\ call.error = None
    /\ q[1].low_mark = 1 /\ q[1].high_mark = Some(2)
    /\ call.rows = 3 /\ call.number = 1

\* C25 as worded: get_count() counts over a wrapping subquery whenever the
\* query has any select entry, any aggregate or distinct fields, and
\* directly only when it has none of these.
C25_WordedStep ==
    call'.op = "get_count" =>
        (call'.wrapped <=> \/ q[1].select # << >>
                           \/ DOMAIN q[1].aggregates # {}
                           \/ q[1].distinct_fields # << >>)
C25_WrapStep ==
    call'.op = "get_count" =>
        /\ call'.wrapped <=> \/ Len(q[1].select) > 1
                             \/ DOMAIN aggregate_select(q[1]) # {}
                             \/ q[1].distinct_fields # << >>
        /\ (call'.error = None /\ ~call'.empty) =>
              /\ DOMAIN call'.obj.aggregates = {None}
              /\ call'.wrapped =>
                    call'.obj.select = << >> /\ DOMAIN call'.obj.alias_map = {}
              /\ ~call'.wrapped =>
                    /\ call'.obj.select = q[1].select
                    /\ DOMAIN q[1].alias_map \subseteq DOMAIN call'.obj.alias_map
RECURSIVE UnescapedSeparators(_)
UnescapedSeparators(s) ==
    IF s = << >> THEN 0
    ELSE IF Head(s) = COMPOSITE_VALUE_QUOTING_CHAR /\ Len(s) > 1
    THEN UnescapedSeparators(SubSeq(s, 3, Len(s)))
    ELSE (IF Head(s) = COMPOSITE_VALUE_SEPARATOR THEN 1 ELSE 0)
         + UnescapedSeparators(Tail(s))

\* C26: for every tuple v of underlying values of a composite field, also of
\* values that hold the separator ',' or the quoting character '~', to_python
\* of the text of the composite value returns v, one part per underlying
\* field in definition order, and the text has no unescaped separator inside
\* a part.
C26_RoundTripStep ==
    (/\ call.op = "str" /\ call'.op = "to_python"
     /\ call'.fields = call.fields /\ call'.given = Text(call.text)) =>
        /\ call'.error = None
        /\ call'.value = call.value
        /\ UnescapedSeparators(call.text) = Len(call.fields) - 1
C26_RoundTrip == [][C26_RoundTripStep]_vars

\* C27: the text of the value ("Jo,e", "Bloggs") of a composite of two
\* fields is exactly Jo~,e,Bloggs, and to_python of the text Jo~,e,Bloggs
\* returns ("Jo,e", "Bloggs").
C27_ExampleStep ==
    /\ (call'.op = "str" /\ call'.value = JoeBloggs) => call'.text = JoeBloggsText
    /\ (/\ call'.op = "to_python" /\ Len(call'.fields) = 2
        /\ call'.given = Text(JoeBloggsText)) =>
           call'.error = None /\ call'.value = JoeBloggs
C27_JoeBloggs == [][C27_ExampleStep]_vars

\* The number of parts of a text given to to_python: one more than the
\* separators between its first and its last character
PartCount(s) ==
    Cardinality({n \in 2..(Len(s) - 1) : s[n] = COMPOSITE_VALUE_SEPARATOR}) + 1

\* C28: to_python raises ValueError exactly when the number of parts of the
\* split text, or of the given sequence, differs from the number of the
\* underlying fields; None is decoded to one None per underlying field.
C28_ArityStep ==
    call'.op = "to_python" =>
       /\ call'.given.kind = "text" =>
             (call'.error = "ValueError" <=> PartCount(call'.given.text) # Len(call'.fields))
       /\ call'.given.kind = "list" =>
             (call'.error = "ValueError" <=> Len(call'.given.items) # Len(call'.fields))
       /\ call'.given.kind = "none" =>
             /\ call'.error = None
             /\ call'.value = [n \in 1..Len(call'.fields) |-> NoneValue]
       /\ call'.error \in {None, "ValueError"}
C28_Arity == [][C28_ArityStep]_vars
C28_Witness ==
    /\ call.op = "to_python"
    /\ call.given.kind = "list"
    /\ Len(call.given.items) = 3
    /\ Len(call.fields) = 2
    /\ call.error = "ValueError"

\* C29: for 'exact' get_lookup_constraint builds an AND node with exactly one
\* equality comparison per underlying column, the i-th on the i-th target
\* column with the i-th decoded value; for 'in' it builds a node of one IN
\* constraint over all the columns; for any other lookup type it raises an
\* error and builds no constraint.
Decoded(fields, given) ==
    CASE given.kind = "none" -> [n \in 1..Len(fields) |-> NoneValue]
      [] given.kind = "list" -> given.items
      [] OTHER -> text_parts(given.text)
C29_ConstraintStep ==
    call'.op = "get_lookup_constraint" =>
       /\ (call'.lookup_type = "exact" /\ call'.error = None) =>
             /\ call'.constraint # Nothing
             /\ call'.constraint[1].connector = AND
             /\ Len(call'.constraint[1].children) = Len(call'.fields)
             /\ \A n \in 1..Len(call'.fields) :
                   /\ call'.constraint[1].children[n].kind = "leaf"
                   /\ call'.constraint[1].children[n].lookup_type = "exact"
                   /\ call'.constraint[1].children[n].constraint.alias = call'.alias
                   /\ call'.constraint[1].children[n].constraint.col = call'.targets[n].column
                   /\ call'.constraint[1].children[n].value
                         = Decoded(call'.fields, call'.raw_value)[n]
       /\ (call'.lookup_type = "exact" /\ call'.error # None) =>
             /\ call'.error = "ValueError"
             /\ call'.constraint = Nothing
             /\ Len(Decoded(call'.fields, call'.raw_value)) # Len(call'.fields)
       /\ (call'.lookup_type = "in" /\ call'.error = None) =>
             /\ call'.constraint # Nothing
             /\ Len(call'.constraint[1].children) = 1
             /\ call'.constraint[1].children[1].kind = "in"
             /\ call'.constraint[1].children[1].constraint.alias = call'.alias
             /\ call'.constraint[1].children[1].constraint.cols
                   = [n \in 1..Len(call'.fields) |-> call'.targets[n].column]
             /\ call'.constraint[1].children[1].constraint.values
                   = [n \in 1..Len(call'.raw_value.items) |->
                        Decoded(call'.fields, call'.raw_value.items[n])]
       /\ (call'.lookup_type = "in" /\ call'.error # None) => call'.constraint = Nothing
       /\ call'.lookup_type \notin {"exact", "in"} =>
             call'.error = "TypeError" /\ call'.constraint = Nothing
C29_LookupConstraint == [][C29_ConstraintStep]_vars
C29_Witness ==
    /\ call.op = "get_lookup_constraint"
    /\ call.lookup_type = "exact"
    /\ call.raw_value = List(<< <<"a">>, NoneValue >>)
    /\ call.constraint # Nothing
    /\ Len(call.constraint[1].children) = 2
    /\ call.constraint[1].children[1].value = <<"a">>
    /\ call.constraint[1].children[2].value = NoneValue

\* C30: add_ordering with an item that does not match the ordering pattern
\* fails with an error that lists every such item of the call, and leaves
\* order_by and default_ordering as they were, also when matching items come
\* before the others.
Offending(ordering) == {n \in 1..Len(ordering) : ~ORDER_PATTERN_match(ordering[n])}
C30_OrderingStep ==
    (call'.op = "add_ordering" /\ Offending(call'.ordering) # {}) =>
       /\ call'.error = "FieldError"
       /\ \A n \in Offending(call'.ordering) :
             \E m \in 1..Len(call'.errors) : call'.errors[m] = call'.ordering[n]
       /\ \A m \in 1..Len(call'.errors) :
             \E n \in Offending(call'.ordering) : call'.errors[m] = call'.ordering[n]
       /\ q'[1].order_by = q[1].order_by
       /\ q'[1].default_ordering = q[1].default_ordering
C30_InvalidOrdering == [][C30_OrderingStep]_vars
C30_Witness ==
    /\ call.op = "add_ordering"
    /\ call.ordering = << <<"a">>, <<"-">> >>
    /\ call.error = "FieldError"
    /\ call.errors = << <<"-">> >>
    /\ q[1].order_by = << <<"?">> >>

\* C31: an add_filter call that fails because a name of its path is neither
\* a field nor a lookup type leaves alias_refcount, alias_map, tables,
\* join_map and the WHERE tree of the query as they were, also when the name
\* comes after a relation.
C31_UnresolvedStep ==
    (call'.op = "add_filter" /\ call'.error = "FieldError") =>
       /\ q'[1].alias_refcount = q[1].alias_refcount
       /\ q'[1].alias_map = q[1].alias_map
       /\ q'[1].tables = q[1].tables
       /\ q'[1].join_map = q[1].join_map
       /\ q'[1].where = q[1].where
C31_FailedFilterChangesNothing == [][C31_UnresolvedStep]_vars

\* C32: self.combine(rhs, connector) never modifies rhs: alias_map,
\* alias_refcount, tables, table_map, join_map, where, select, extra and
\* order_by of rhs are after the call what they were before it, whether it
\* succeeds or fails, and the next call on self does not change them either.
RhsUnchanged ==
    /\ q'[2].alias_map = q[2].alias_map
    /\ q'[2].alias_refcount = q[2].alias_refcount
    /\ q'[2].tables = q[2].tables
    /\ q'[2].table_map = q[2].table_map
    /\ q'[2].join_map = q[2].join_map
    /\ q'[2].where = q[2].where
    /\ q'[2].select = q[2].select
    /\ q'[2].extra = q[2].extra
    /\ q'[2].order_by = q[2].order_by
C32_CombineStep ==
    /\ (call'.op = "combine" /\ call'.self = 1) => RhsUnchanged
    /\ (call.op = "combine" /\ call'.self = 1) => RhsUnchanged
C32_CombineLeavesRhs == [][C32_CombineStep]_vars

\* C33: after join(connection, promote=True) has returned an alias that is
\* not the base alias, the alias has join type LOUTER, whether it was
\* created by the call or an INNER alias was reused.
C33_PromoteStep ==
    (/\ call'.op = "join"
     /\ call'.promote
     /\ q'[1].alias_map[call'.alias].lhs_alias # None) =>
        q'[1].alias_map[call'.alias].join_type = LOUTER
C33_PromoteGivesLouter == [][C33_PromoteStep]_vars

\* C34: table_alias(table_name, create=False) on a table that has aliases
\* returns the alias of the table that was created last and raises its
\* refcount by one, creating nothing; with create=True, as join() calls it, a
\* new alias is created with refcount 1 and appended to tables.
C34_TableAliasStep ==
    /\ (call'.op = "table_alias" /\ ~call'.create) =>
          /\ call'.alias = q[1].table_map[call'.table_name][Len(q[1].table_map[call'.table_name])]
          /\ q'[1].alias_refcount[call'.alias] = q[1].alias_refcount[call'.alias] + 1
          /\ q'[1].tables = q[1].tables
          /\ q'[1].table_map = q[1].table_map
          /\ ~call'.new
    /\ (call'.op = "join" /\ call'.new) =>
          /\ call'.alias \notin Range(q[1].tables)
          /\ q'[1].alias_refcount[call'.alias] = 1
          /\ q'[1].tables = Append(q[1].tables, call'.alias)
C34_TableAlias == [][C34_TableAliasStep]_vars

\* C35: add_ordering called with no item clears all ordering: afterwards
\* order_by is empty and the default ordering is off, whatever earlier
\* add_ordering calls added.
C35_NoItemStep ==
    (call'.op = "add_ordering" /\ call'.ordering = << >>) =>
       /\ q'[1].order_by = << >>
       /\ ~q'[1].default_ordering
C35_EmptyOrderingClears == [][C35_NoItemStep]_vars

\* The rows of a table that has more rows than any mark reaches, and the
\* rows of the window [low_mark, high_mark) of a query, in their order
TableRows == [n \in 1..(2 * MaxMark + 1) |-> n - 1]
PySlice(rows, low, high) ==
    LET from == IF low = Nothing THEN 0 ELSE Min(low[1], Len(rows))
        to == IF high = Nothing THEN Len(rows) ELSE Min(high[1], Len(rows))
    IN SubSeq(rows, from + 1, to)
Window(Q) == PySlice(TableRows, Some(Q.low_mark), Q.high_mark)

\* C36: after set_limits(low, high) with non-negative arguments the window
\* [low_mark, high_mark) is the slice [low:high] of the window before the
\* call; low_mark does not decrease, high_mark does not increase once it is
\* set, and low_mark <= high_mark whenever high_mark is set.
C36_SliceStep ==
    call'.op = "set_limits" =>
       /\ Window(q'[1]) = PySlice(Window(q[1]), call'.low, call'.high)
       /\ q'[1].low_mark >= q[1].low_mark
       /\ q[1].high_mark # Nothing =>
             q'[1].high_mark # Nothing /\ q'[1].high_mark[1] <= q[1].high_mark[1]
       /\ q'[1].high_mark # Nothing => q'[1].low_mark <= q'[1].high_mark[1]
C36_Slices == [][C36_SliceStep]_vars
C36_Witness ==
    /\ call.op = "set_limits"
    /\ call.low = Some(2)
    /\ call.high = Some(1)
    /\ q[1].low_mark = 2
    /\ q[1].high_mark = Some(2)

\* The names a call to add_immediate_loading gives, pk read as the name of
\* the primary key
Named(field_names) == {IF name = "pk" THEN "id" ELSE name : name \in field_names}

\* C37: in defer mode add_deferred_loading adds its names to the set and
\* add_immediate_loading stores its names without the deferred ones and
\* switches to immediate mode; in immediate mode add_deferred_loading takes
\* its names out of the set and add_immediate_loading replaces the set; the
\* mode goes from immediate to defer through clear_deferred_loading only,
\* which leaves the empty set in defer mode.
C37_LoadingStep ==
    LET before == q[1].deferred_loading
        after == q'[1].deferred_loading
    IN /\ (call'.op = "add_deferred_loading" /\ before.defer) =>
             after = [names |-> before.names \cup call'.field_names, defer |-> TRUE]
       /\ (call'.op = "add_deferred_loading" /\ ~before.defer) =>
             after = [names |-> before.names \ call'.field_names, defer |-> FALSE]
       /\ (call'.op = "add_immediate_loading" /\ before.defer) =>
             after = [names |-> Named(call'.field_names) \ before.names, defer |-> FALSE]
       /\ (call'.op = "add_immediate_loading" /\ ~before.defer) =>
             after = [names |-> Named(call'.field_names), defer |-> FALSE]
       /\ call'.op = "clear_deferred_loading" =>
             after = [names |-> {}, defer |-> TRUE]
       /\ (~before.defer /\ after.defer) => call'.op = "clear_deferred_loading"
C37_DeferredLoading == [][C37_LoadingStep]_vars
C37_Witness ==
    /\ call.op = "add_deferred_loading"
    /\ call.field_names = {"name"}
    /\ q[1].deferred_loading = [names |-> {"owner"}, defer |-> FALSE]

\* C38: after any sequence of add_filter calls on a query no alias has a
\* negative refcount, and the base alias has a refcount of one at least.
C38_Refcounts ==
    /\ \A a \in DOMAIN q[1].alias_refcount : q[1].alias_refcount[a] >= 0
    /\ q[1].tables # << >> => q[1].alias_refcount[q[1].tables[1]] >= 1
C38_Witness ==
    /\ call.op = "add_filter"
    /\ call.trim
    /\ call.error = None
    /\ \E a \in DOMAIN q[1].alias_refcount : q[1].alias_refcount[a] = 0

\* C39: an alias that has join type LOUTER has it in every later state,
\* across join, promote_joins, trim_joins, bump_prefix (under its new name,
\* which takes its place in tables) and combine; and a second promote_joins
\* call with the arguments of the first changes nothing.
StaysOuter ==
    \A n \in 1..Len(q[1].tables) :
       q[1].alias_map[q[1].tables[n]].join_type = LOUTER =>
          /\ n <= Len(q'[1].tables)
          /\ q'[1].alias_map[q'[1].tables[n]].join_type = LOUTER
PromotedOnce ==
    call'.op = "promote_joins" =>
       \A aliases \in AliasLists(q[1], MaxPromote), unconditional \in BOOLEAN :
          q'[1] = promote_joins(q[1], aliases, unconditional) =>
             promote_joins(q'[1], aliases, unconditional) = q'[1]
C39_OuterStep == StaysOuter /\ PromotedOnce
C39_OuterStays == [][C39_OuterStep]_vars
C39_Witness ==
    /\ call.op = "bump_prefix"
    /\ Len(q[1].tables) >= 3
    /\ q[1].alias_map[q[1].tables[2]].join_type = LOUTER
    /\ q[1].alias_map[q[1].tables[3]].join_type = INNER

\* C40: promote_joins returns for every alias_map and every list of
\* aliases, also when the lhs_alias links form a cycle or join an alias to
\* itself; no alias changes its join type more than once in a call, and the
\* call changes nothing but join types.
JoinTypeOnly(Q, before) ==
    /\ Q.alias_refcount = before.alias_refcount
    /\ Q.tables = before.tables
    /\ Q.table_map = before.table_map
    /\ Q.join_map = before.join_map
    /\ DOMAIN Q.alias_map = DOMAIN before.alias_map
    /\ \A a \in DOMAIN Q.alias_map :
          [Q.alias_map[a] EXCEPT !.join_type = None]
             = [before.alias_map[a] EXCEPT !.join_type = None]
C40_InCall ==
    call.op = "promote_joins" =>
       /\ \A a \in DOMAIN call.changes : call.changes[a] <= 1
       /\ JoinTypeOnly(q[1], call.before)
       /\ call.pc = "done" => q[1] = promote_joins(call.before, call.given, call.unconditional)
C40_PromoteTerminates ==
    /\ []C40_InCall
    /\ (call.op = "promote_joins") ~> (call.op = "promote_joins" /\ call.pc = "done")
C40_Witness ==
    /\ call.op = "promote_joins"
    /\ call.pc = "done"
    /\ call.before.alias_map["T2"].lhs_alias = "T3"
    /\ call.before.alias_map["T3"].lhs_alias = "T2"
    /\ call.changes["T2"] = 1
    /\ call.changes["T3"] = 1

====
